---- MODULE Spec2Model ----
(***************************************************************************)
(* Model of tools/python/xen/xend/XendDomainInfo.py: the lifecycle of the  *)
(* XendDomainInfo instances of one VM, the xenstore subtrees they write,   *)
(* the hypervisor's view of their domains, and the restart policy.         *)
(*                                                                         *)
(* Handlers are written as operators from a world record to a world record *)
(* so that a handler that calls another (restart -> destroy -> cleanupVm)  *)
(* is the composition of their code.  A world carries an exception flag    *)
(* (exc) for an exception that is propagating, and the trace of the calls  *)
(* made (calls).  Every fallible call of an external collaborator (store,  *)
(* hypervisor, image) takes its outcome from the fault set f of the        *)
(* invocation: the call site named in f raises.                            *)
(***************************************************************************)
EXTENDS Integers, Sequences, FiniteSets, TLC

(***************************************************************************)
(* Program constants.                                                      *)
(***************************************************************************)
DOMAIN_POWEROFF == 0
DOMAIN_REBOOT == 1
DOMAIN_SUSPEND == 2
DOMAIN_CRASH == 3
DOMAIN_HALT == 4

STATE_DOM_OK == 1
STATE_DOM_SHUTDOWN == 2

SHUTDOWN_TIMEOUT == 30
MINIMUM_RESTART_TIME == 20

ZOMBIE_PREFIX == "Zombie-"

restart_modes == {"restart", "destroy", "preserve", "rename-restart"}

controllerClasses == {"vbd", "vif", "vtpm", "pci"}

shutdown_reason(code) ==
    CASE code = DOMAIN_POWEROFF -> "poweroff"
      [] code = DOMAIN_REBOOT   -> "reboot"
      [] code = DOMAIN_SUSPEND  -> "suspend"
      [] code = DOMAIN_CRASH    -> "crash"
      [] code = DOMAIN_HALT     -> "halt"
      [] OTHER                  -> "?"

(***************************************************************************)
(* Bounds of the model.                                                    *)
(***************************************************************************)
\* XendDomainInfo objects ever built (and domain ids the hypervisor gives out).
MaxInst == 2
\* The clock is read at multiples of ClockStep, up to MaxTime.
ClockStep == 20
MaxTime == 40
\* Shutdown codes the hypervisor may report: 0..MaxCode (MaxCode is unknown to
\* shutdown_reasons).
MaxCode == 5
\* How many numbers generateUniqueName may have appended to one name.
MaxSuffix == 1
\* Threads in waitForShutdown, and threads that call state_set.
MaxWaiters == 2
MaxSetters == 2
\* Memory settings up to MaxMiB MiB are tried.
MaxMiB == 2
\* VCPU counts up to MaxVcpus are configured and set.
MaxVcpus == 2
\* Writers that commit below <dompath>/device while release_devices runs.
MaxWriters == 2

Insts == 1..MaxInst
Domids == 1..MaxInst
\* uuid 0 is the uuid of the VM's configuration; the others are those that
\* uuid.create() returns in preserveForRestart (uuid_create), each once.
Uuids == 0..(MaxInst * (MaxSuffix + 1))
Codes == 0..MaxCode

\* Python's None, and a value that is set.
None == <<>>
Some(v) == <<v>>
IsSet(o) == o # <<>>
Val(o) == o[1]

(***************************************************************************)
(* The state.                                                              *)
(***************************************************************************)
VARIABLES
    vm,       \* the XendDomainInfo objects: slot -> fields (self.*)
    ninst,    \* how many objects have been built
    svm,      \* the store below /vm/<uuid>
    sdom,     \* the store below /local/domain/<domid>
    xc,       \* the hypervisor: domid -> None or the domain's info flags
    timers,   \* scheduler.later: pending (instance, due time) callbacks
    now,      \* time.time()
    last,     \* the last handler that ran: what was called, with what outcome
    pc,       \* where each thread is in the method it runs
    refresh_shutdown_lock,  \* None, or the thread that holds it
    state_updated,   \* the condition: the owner of its lock and its waiters
    restart_reason,  \* refreshShutdown's local variable, per thread
    thread_xeninfo,  \* refreshShutdown's xeninfo, per thread
    under_lock,      \* what the holder of refresh_shutdown_lock has called
    dispatched,      \* how many times maybeRestart has been dispatched
    self_info        \* self.info: the memory settings of the info block

vars == <<vm, ninst, svm, sdom, xc, timers, now, last, pc,
          refresh_shutdown_lock, state_updated, restart_reason,
          thread_xeninfo,
          under_lock, dispatched,
                   self_info>>

\* The variables of the threads, and the info block under validation.
tvars == <<pc, refresh_shutdown_lock, state_updated, restart_reason,
          thread_xeninfo,
           under_lock, dispatched,
                   self_info>>

\* An empty /vm/<uuid> subtree and an empty /local/domain/<domid> subtree.
\* Of what storeVmDetails writes, details is the key uuid and info the keys
\* that augmentInfo reads back; of what storeDomDetails writes, vm is the
\* key vm: the VM path.
EmptyVm == [details |-> None, rip |-> FALSE, prt |-> None, info |-> None]
EmptyDom == [details |-> FALSE, completed |-> FALSE, sst |-> None,
             control |-> None, device |-> {}, vm |-> None]

\* A name is the string prefix \o base \o suffix: prefix the sequence of
\* "Zombie-" tokens in front of it, suffix the numbers "-<n>" appended to it.
Name(prefix, base) == [prefix |-> prefix, base |-> base, suffix |-> <<>>]
NoName == Name(<<>>, "")

\* name.startswith(prefix)
startswith(name, prefix) == Len(name.prefix) > 0 /\ name.prefix[1] = prefix

\* The slot of an object that has not been built.
NoInst == [exists |-> FALSE, registered |-> FALSE, domid |-> None,
           dompath |-> FALSE, vmpath |-> 0, name |-> NoName, uuid |-> 0,
           image |-> FALSE, state |-> STATE_DOM_OK,
           on_poweroff |-> "destroy", on_reboot |-> "restart",
           on_crash |-> "restart", device |-> {},
           store_port |-> None, store_mfn |-> None, console_port |-> None,
           console_mfn |-> None]

\* xc.domain_getinfo's flags for one domain.
XenInfo(dying, crashed, shutdown, code) ==
    [dying |-> dying, crashed |-> crashed, shutdown |-> shutdown,
     shutdown_reason |-> code]
Running == XenInfo(FALSE, FALSE, FALSE, 0)
Crashed == XenInfo(FALSE, TRUE, FALSE, DOMAIN_CRASH)
Dying == XenInfo(TRUE, FALSE, FALSE, 0)
Shut(code) == XenInfo(FALSE, FALSE, TRUE, code)

\* The world a handler runs in and returns.
World == [vm |-> vm, ninst |-> ninst, svm |-> svm, sdom |-> sdom, xc |-> xc,
          timers |-> timers, now |-> now, exc |-> FALSE, calls |-> <<>>,
          fired |-> {}, rr |-> None]

Raise(w) == [w EXCEPT !.exc = TRUE]
\* except: log.exception(...): the exception is logged and dropped.
Swallow(w) == [w EXCEPT !.exc = FALSE]
Call(w, what) == [w EXCEPT !.calls = Append(@, what)]

Has(calls, what) == \E k \in 1..Len(calls) : calls[k] = what
Count(calls, what) == Cardinality({k \in 1..Len(calls) : calls[k] = what})

\* A fault of the invocation fires at call site n.
Fail(w, n) == [w EXCEPT !.exc = TRUE, !.fired = @ \cup {n}]

(***************************************************************************)
(* Store access of an instance.                                            *)
(***************************************************************************)
\* self.removeVm(): xstransact.Remove(self.vmpath) removes the whole subtree.
removeVm(w, i) == [w EXCEPT !.svm[w.vm[i].vmpath] = EmptyVm]

\* self.removeDom(): xstransact.Remove(self.dompath).
removeDom(w, i) ==
    IF w.vm[i].dompath
    THEN [w EXCEPT !.sdom[Val(w.vm[i].domid)] = EmptyDom]
    ELSE Raise(w)

readDom(w, i) ==
    IF w.vm[i].dompath THEN w.sdom[Val(w.vm[i].domid)] ELSE EmptyDom

readVm(w, i) == w.svm[w.vm[i].vmpath]

(***************************************************************************)
(* state_set                                                               *)
(***************************************************************************)
\* A notify() in place of notifyAll(): one waiter is woken.
notify_one(waiting) ==
    IF waiting = {} THEN {} ELSE waiting \ {CHOOSE t \in waiting : TRUE}

\* state_updated.notifyAll(): no thread is left waiting.
notifyAll(waiting) == {}

\* An assignment of self.state that does not take the lock of state_updated.
state_set_unlocked(w, i, state) ==
    IF w.vm[i].state # state
    THEN Call([w EXCEPT !.vm[i].state = state], "notifyAll")
    ELSE w

\* The handler runs state_set in one piece: it takes the lock of
\* state_updated, assigns and notifies if the state differs, and releases.
state_set(w, i, state) ==
    LET w1 == Call(w, "state_updated.acquire")
        w2 == IF w1.vm[i].state # state
              THEN Call([w1 EXCEPT !.vm[i].state = state], "notifyAll")
              ELSE w1
    IN  Call(w2, "state_updated.release")

(***************************************************************************)
(* Teardown: release_devices, cleanupDomain, cleanupVm, destroyDomain,     *)
(* destroy.                                                                *)
(***************************************************************************)
\* One pass of the loop body: the transaction is opened and the classes are
\* listed (not inside any try), each entry is removed (a failure is logged
\* and swallowed), and the transaction is committed (not inside any try).
\* A commit that returns False (a writer committed first) drops what the
\* pass removed, leaves the store as the writer made it, and the loop goes
\* round again.  writers: what each of the writers to come adds below
\* <dompath>/device.
release_devices_written(w, i, entries) ==
    IF w.vm[i].dompath
    THEN [w EXCEPT !.sdom[Val(w.vm[i].domid)].device = @ \cup entries]
    ELSE w

\* A pass that removes the entries of the class vbd only.
release_devices_removed_vbd(w, i) ==
    [w EXCEPT !.sdom[Val(w.vm[i].domid)].device = @ \ {"vbd"}]

\* for n in controllerClasses.keys(): for d in t.list(n): t.remove(d)
release_devices_removed(w, i) ==
    [w EXCEPT !.sdom[Val(w.vm[i].domid)].device = @ \ controllerClasses]

RECURSIVE release_devices_loop(_, _, _, _)
release_devices_loop(w, i, f, writers) ==
    IF "list" \in f THEN Fail(w, "list")
    ELSE IF "commit" \in f THEN Fail(w, "commit")
    ELSE IF Len(writers) > 0
         THEN release_devices_loop(
                  Call(release_devices_written(w, i, writers[1]), "conflict"),
                  i, f, Tail(writers))
    ELSE IF ~w.vm[i].dompath THEN Call(w, "commit")
    ELSE IF "remove" \in f /\ w.sdom[Val(w.vm[i].domid)].device # {}
         THEN Call(Swallow(Fail(w, "remove")), "commit")
    ELSE Call(release_devices_removed(w, i), "commit")

release_devices(w, i, f) ==
    release_devices_loop(Call(w, "release_devices"), i, f,
                         IF "conflict" \in f THEN <<{}>> ELSE <<>>)

\* if self.image: image.destroy() (an exception is logged); self.image = None
image_destroy(w, i, f) ==
    IF ~w.vm[i].image THEN w
    ELSE IF "image.destroy" \in f
    THEN Swallow(Fail(Call([w EXCEPT !.vm[i].image = FALSE], "image.destroy"),
                      "image.destroy"))
    ELSE Call([w EXCEPT !.vm[i].image = FALSE], "image.destroy")

\* try: self.removeDom() except: log.exception(...)
cleanup_removeDom(w, i, f) ==
    IF "removeDom" \in f THEN Swallow(Fail(w, "removeDom"))
    ELSE Swallow(removeDom(w, i))

\* The rename without the test of startswith(ZOMBIE_PREFIX).
zombie_rename_always(w, i) ==
    [w EXCEPT !.vm[i].name.prefix = <<ZOMBIE_PREFIX>> \o @]

\* if not name.startswith(ZOMBIE_PREFIX): name = ZOMBIE_PREFIX + name
zombie_rename(w, i) ==
    IF ~startswith(w.vm[i].name, ZOMBIE_PREFIX)
    THEN [w EXCEPT !.vm[i].name.prefix = <<ZOMBIE_PREFIX>> \o @]
    ELSE w

\* cleanupDomain after its call of release_devices, which is made outside
\* any try: an exception of it leaves cleanupDomain at once.
cleanupDomain_released(w, i, f) ==
    IF w.exc THEN w
    ELSE state_set(
             zombie_rename(
                 cleanup_removeDom(image_destroy(w, i, f), i, f), i),
             i, STATE_DOM_SHUTDOWN)

cleanupDomain(w, i, f) ==
    cleanupDomain_released(
        release_devices(Call(w, "cleanupDomain"), i, f), i, f)

cleanupVm(w, i, f) ==
    IF "removeVm" \in f THEN Swallow(Fail(w, "removeVm")) ELSE removeVm(w, i)

\* xc.domain_destroy(dom): raises for a domain the hypervisor does not have.
xc_domain_destroy(w, d, f) ==
    IF "domain_destroy" \in f THEN Fail(w, "domain_destroy")
    ELSE IF d \notin Domids THEN Raise(w)
    ELSE IF w.xc[d] = None THEN Raise(w)
    ELSE Call([w EXCEPT !.xc[d] = Some(Dying)], "xc.domain_destroy")

\* A destroyDomain that does not ask the hypervisor to destroy the domain.
destroyDomain_xc_skipped(w, i, f) == w

\* try: if self.domid is not None: xc.domain_destroy(...) except: log
destroyDomain_xc(w, i, f) ==
    IF IsSet(w.vm[i].domid)
    THEN Swallow(xc_domain_destroy(w, Val(w.vm[i].domid), f))
    ELSE w

destroyDomain(w, i, f) ==
    cleanupDomain(destroyDomain_xc(Call(w, "destroyDomain"), i, f), i, f)

\* A destroy that leaves the VM's subtree alone.
destroy_domain_only(w, i, f) ==
    IF w.vm[i].dompath THEN destroyDomain(Call(w, "destroy"), i, f)
    ELSE Call(w, "destroy")

destroy(w, i, f) ==
    IF w.vm[i].dompath
    THEN destroyDomain(cleanupVm(Call(w, "destroy"), i, f), i, f)
    ELSE cleanupVm(Call(w, "destroy"), i, f)

(***************************************************************************)
(* Names in use, construction, and the store details.                      *)
(* In a sequence of statements, one that follows a statement that raised   *)
(* does not run: it returns the world it was given.                        *)
(***************************************************************************)
\* domain_by_name(name): the registered domains that hold the name.
domain_by_name(w, name) ==
    {j \in Insts : w.vm[j].registered /\ w.vm[j].name = name}

\* string.digits, string.ascii_letters, and the other characters of a name.
string_digits == {"0", "1", "2", "3", "4", "5", "6", "7", "8", "9"}

string_ascii_letters ==
    {"a", "b", "c", "d", "e", "f", "g", "h", "i", "j", "k", "l", "m", "n",
     "o", "p", "q", "r", "s", "t", "u", "v", "w", "x", "y", "z", "A", "B",
     "C", "D", "E", "F", "G", "H", "I", "J", "K", "L", "M", "N", "O", "P",
     "Q", "R", "S", "T", "U", "V", "W", "X", "Y", "Z"}

\* The characters of the base of a name ('Zombie-' and the '-<n>' that
\* generateUniqueName appends are made of letters, digits and '-').
Spelled(base) ==
    CASE base = ""         -> <<>>
      [] base = "vm"       -> <<"v", "m">>
      [] base = "db"       -> <<"d", "b">>
      [] base = "v m"      -> <<"v", " ", "m">>
      [] base = "a_-.:/+9" -> <<"a", "_", "-", ".", ":", "/", "+", "9">>
      [] base = "vm!"      -> <<"v", "m", "!">>
      [] base = "Domain"   -> <<"D", "o", "m", "a", "i", "n">>

\* for c in name: digits, '_-.:/+' and ascii letters pass; any other raises.
check_name_chars(name) ==
    /\ name.base # ""
    /\ \A k \in 1..Len(Spelled(name.base)) :
           \/ Spelled(name.base)[k] \in string_digits
           \/ Spelled(name.base)[k] \in {"_", "-", ".", ":", "/", "+"}
           \/ Spelled(name.base)[k] \in string_ascii_letters

\* A check_name that does not look the name up.
check_name_unheld(w, domid, name) == check_name_chars(name)

\* check_name: TRUE when it returns, FALSE when it raises VmError.
check_name(w, domid, name) ==
    /\ check_name_chars(name)
    /\ \/ domain_by_name(w, name) = {}
       \/ /\ IsSet(domid)
          /\ \A j \in domain_by_name(w, name) : w.vm[j].domid = domid

\* setName(name): check_name(name); self.info['name'] = name; storeVm(...)
setName(w, i, name) ==
    IF ~check_name(w, w.vm[i].domid, name) THEN Raise(Call(w, "setName"))
    ELSE Call([w EXCEPT !.vm[i].name = name], "setName")

storeVmDetails(w, i, f) ==
    IF w.exc THEN w
    ELSE IF "storeVmDetails" \in f THEN Fail(w, "storeVmDetails")
    ELSE Call([w EXCEPT !.svm[w.vm[i].vmpath].details = Some(w.vm[i].uuid),
                        !.svm[w.vm[i].vmpath].info =
                            Some([name |-> w.vm[i].name,
                                  on_poweroff |-> w.vm[i].on_poweroff,
                                  on_reboot |-> w.vm[i].on_reboot,
                                  on_crash |-> w.vm[i].on_crash])],
              "storeVmDetails")

storeDomDetails(w, i, f) ==
    IF w.exc THEN w
    ELSE IF "storeDomDetails" \in f THEN Fail(w, "storeDomDetails")
    ELSE [w EXCEPT !.sdom[Val(w.vm[i].domid)].details = TRUE,
                   !.sdom[Val(w.vm[i].domid)].vm = Some(w.vm[i].vmpath)]

construct(w, i, f) ==
    IF "construct" \in f
    THEN \* xc.domain_create returned a negative id.
         Fail([w EXCEPT !.vm[i].domid = Some(-1)], "construct")
    ELSE IF "domain_max_vcpus" \in f
    THEN Fail([w EXCEPT !.vm[i].domid = Some(i), !.xc[i] = Some(Running),
                        !.vm[i].dompath = TRUE, !.sdom[i] = EmptyDom],
              "domain_max_vcpus")
    ELSE [w EXCEPT !.vm[i].domid = Some(i), !.xc[i] = Some(Running),
                   !.vm[i].dompath = TRUE, !.sdom[i] = EmptyDom]

\* createDevices(): the entries of the configured devices are written below
\* <dompath>/device.
createDevices(w, i, f) ==
    IF w.exc THEN w
    ELSE IF "createDevices" \in f THEN Fail(w, "createDevices")
    ELSE [w EXCEPT !.sdom[Val(w.vm[i].domid)].device = w.vm[i].device]

\* A createChannels that allocates no channel.
createChannels_skipped(w, i, f) == w

\* createChannels(): store_port and console_port are the ports that
\* xc.evtchn_alloc_unbound returns.
createChannels(w, i, f) ==
    IF w.exc THEN w
    ELSE IF "createChannels" \in f THEN Fail(w, "createChannels")
    ELSE [w EXCEPT !.vm[i].store_port = Some(1),
                   !.vm[i].console_port = Some(2)]

\* channel_details = self.image.createImage(): store_mfn and console_mfn
\* are the frames of the built image.
createImage(w, i) ==
    IF w.exc THEN w
    ELSE [w EXCEPT !.vm[i].store_mfn = Some(1), !.vm[i].console_mfn = Some(2)]

\* The three assertions, then IntroduceDomain(domid, store_mfn, store_port).
introduceDomain(w, i) ==
    IF w.exc THEN w
    ELSE IF /\ IsSet(w.vm[i].domid)
            /\ IsSet(w.vm[i].store_mfn)
            /\ IsSet(w.vm[i].store_port)
    THEN Call(w, "introduceDomain")
    ELSE Raise(Call(w, "AssertionError"))

\* initDomain: image.create, createChannels, createImage, introduceDomain,
\* createDevices.
initDomain(w, i, f) ==
    IF w.exc THEN w
    ELSE createDevices(
             introduceDomain(
                 createImage(
                     createChannels([w EXCEPT !.vm[i].image = TRUE], i, f),
                     i),
                 i),
             i, f)

\* The configuration an instance is built from, and sxpr(), the snapshot of
\* an instance's configuration.
Config(name, uuid, off, reboot, crash, device) ==
    [name |-> name, uuid |-> uuid, on_poweroff |-> off, on_reboot |-> reboot,
     on_crash |-> crash, device |-> device]

sxpr(w, i) ==
    Config(w.vm[i].name, w.vm[i].uuid, w.vm[i].on_poweroff,
           w.vm[i].on_reboot, w.vm[i].on_crash, w.vm[i].device)

\* XendDomainInfo(parseConfig(config)): the fields after __init__.
XendDomainInfo(config) ==
    [exists |-> TRUE, registered |-> FALSE, domid |-> None,
     dompath |-> FALSE, vmpath |-> config.uuid, name |-> config.name,
     uuid |-> config.uuid, image |-> FALSE, state |-> STATE_DOM_OK,
     on_poweroff |-> config.on_poweroff, on_reboot |-> config.on_reboot,
     on_crash |-> config.on_crash, device |-> config.device,
     store_port |-> None, store_mfn |-> None, console_port |-> None,
     console_mfn |-> None]

\* The try of create: construct, initDomain, storeVmDetails,
\* storeDomDetails.  The closing refreshShutdown() finds the new domain alive
\* with no shutdown marker (construct emptied its subtree) and does nothing.
create_try(w, j, f) ==
    storeDomDetails(
        storeVmDetails(initDomain(construct(w, j, f), j, f), j, f), j, f)

\* The bare raise that follows vm.destroy(): it raises the caught exception
\* again, and is not reached when destroy itself raised.
create_raise(w) == IF w.exc THEN w ELSE Raise(Call(w, "raise"))

\* except: log.exception(...); vm.destroy(); raise
create_except(w, j, f) ==
    IF w.exc THEN create_raise(destroy(Swallow(w), j, f)) ELSE w

\* validateInfo: every on_poweroff, on_reboot, on_crash is one of
\* restart_modes (otherwise VmError 'invalid restart event').
restart_events_valid(config) ==
    /\ config.on_poweroff \in restart_modes
    /\ config.on_reboot \in restart_modes
    /\ config.on_crash \in restart_modes

\* create(config).  The object takes the next slot; with every slot taken the
\* constructor fails.
create(w, config, f) ==
    IF w.ninst + 1 > MaxInst \/ "parseConfig" \in f
    THEN Fail(Call(w, "create"), "parseConfig")
    ELSE IF ~check_name(w, None, config.name) THEN Raise(Call(w, "create"))
    ELSE IF ~restart_events_valid(config) THEN Raise(Call(w, "create"))
    ELSE create_except(
             create_try([Call(w, "create") EXCEPT
                            !.vm[w.ninst + 1] = XendDomainInfo(config),
                            !.ninst = w.ninst + 1],
                        w.ninst + 1, f),
             w.ninst + 1, f)

\* The try of restore: construct, storeVmDetails, createDevices,
\* createChannels, storeDomDetails.
restore_try(w, j, f) ==
    storeDomDetails(
        createChannels(
            createDevices(storeVmDetails(construct(w, j, f), j, f), j, f),
            j, f),
        j, f)

\* restore(config): as create, with its own try and the same except.
restore(w, config, f) ==
    IF w.ninst + 1 > MaxInst \/ "parseConfig" \in f
    THEN Fail(Call(w, "restore"), "parseConfig")
    ELSE IF ~check_name(w, None, config.name) THEN Raise(Call(w, "restore"))
    ELSE IF ~restart_events_valid(config) THEN Raise(Call(w, "restore"))
    ELSE create_except(
             restore_try([Call(w, "restore") EXCEPT
                             !.vm[w.ninst + 1] = XendDomainInfo(config),
                             !.ninst = w.ninst + 1],
                         w.ninst + 1, f),
             w.ninst + 1, f)

\* XendDomain enters the domain that create returned in the table that
\* domain_by_name searches.
xd_register(w) ==
    IF w.exc THEN w ELSE [w EXCEPT !.vm[w.ninst].registered = TRUE]

\* XendDomain.domain_create(config)
xd_domain_create(w, config, f) == xd_register(create(w, config, f))

\* XendDomain.domain_restore: the restored domain is entered in the table.
xd_domain_restore(w, config, f) == xd_register(restore(w, config, f))

(***************************************************************************)
(* preserve, preserveForRestart, restart, maybeRestart.                    *)
(***************************************************************************)
\* storeDom('xend/shutdown_completed', 'True')
preserve_completed(w, i, f) ==
    IF "storeDom" \in f THEN Fail(w, "storeDom")
    ELSE IF w.vm[i].dompath
    THEN [w EXCEPT !.sdom[Val(w.vm[i].domid)].completed = TRUE]
    ELSE w

\* state_set(STATE_DOM_SHUTDOWN), reached if the store took the marker.
preserve_state_set(w, i) ==
    IF w.exc THEN w ELSE state_set(w, i, STATE_DOM_SHUTDOWN)

preserve(w, i, f) ==
    IF w.exc THEN w
    ELSE preserve_state_set(preserve_completed(Call(w, "preserve"), i, f), i)

RECURSIVE generateUniqueNameFrom(_, _, _)
generateUniqueNameFrom(w, i, n) ==
    IF check_name(w, w.vm[i].domid,
                  [w.vm[i].name EXCEPT !.suffix = Append(@, n)])
    THEN [w.vm[i].name EXCEPT !.suffix = Append(@, n)]
    ELSE generateUniqueNameFrom(w, i, n + 1)

generateUniqueName(w, i) == generateUniqueNameFrom(w, i, 1)

\* uuid.create(): a UUID that no instance has been given.  The name of an
\* instance gets one more number each time the instance is preserved, so
\* the instance and the count of the numbers name the call.
uuid_create(w, i) == i + MaxInst * Len(w.vm[i].name.suffix)

\* A rename that gives the dead domain the new name and leaves it the UUID
\* and the VM path it had.
preserveForRestart_rename_only(w, i, new_name) ==
    IF w.exc THEN w ELSE [w EXCEPT !.vm[i].name = new_name]

\* self.info['name'] = new_name; self.info['uuid'] = new_uuid;
\* self.vmpath = VMROOT + new_uuid.
preserveForRestart_rename(w, i, new_name) ==
    IF w.exc THEN w
    ELSE [w EXCEPT !.vm[i].name = new_name, !.vm[i].uuid = uuid_create(w, i),
                   !.vm[i].vmpath = uuid_create(w, i)]

preserveForRestart(w, i, f) ==
    preserve(
        storeVmDetails(
            preserveForRestart_rename(
                release_devices(Call(w, "preserveForRestart"), i, f),
                i, generateUniqueName(w, i)),
            i, f),
        i, f)

\* try: new_dom.unpause() except: new_dom.destroy(); raise
new_dom_unpause(w, f) ==
    IF w.exc THEN w
    ELSE IF "unpause" \in f
    THEN Raise(destroy(Swallow(Fail(w, "unpause")), w.ninst, f))
    ELSE Call(w, "unpause")

\* The inner try of restart: new_dom = xd.domain_create(config) and its
\* unpause; except: log.exception('Failed to restart domain').
restart_new_dom(w, config, f) ==
    IF w.exc THEN w
    ELSE Swallow(new_dom_unpause(xd_domain_create(w, config, f), f))

\* The outer try of restart.
restart_try(w, i, rename, config, f) ==
    restart_new_dom(IF rename THEN preserveForRestart(w, i, f)
                    ELSE destroyDomain(w, i, f),
                    config, f)

\* finally: self.removeVm('xend/restart_in_progress'), on the vmpath the
\* instance has by then; an exception of the try goes on to the caller.
restart_finally(w, i, f) ==
    IF "removeVm.rip" \in f THEN Fail(w, "removeVm.rip")
    ELSE [w EXCEPT !.svm[w.vm[i].vmpath].rip = FALSE]

\* The guard with its comparison the wrong way round.
restart_refused_late(rst, t) ==
    IsSet(rst) /\ t - Val(rst) > MINIMUM_RESTART_TIME

\* Lines 1278-1288: with a previous restart time recorded, restart destroys
\* and returns; the test of the interval guards only the log.error.
restart_refused(rst, t) == IsSet(rst)

\* if timeout < MINIMUM_RESTART_TIME: log.error('... restarting too fast')
restart_log_fast(w, i) ==
    IF w.now - Val(readVm(w, i).prt) < MINIMUM_RESTART_TIME
    THEN Call(w, "refuse.fast")
    ELSE w

\* restart from the read of previous_restart_time on (lines 1276-1309).
restart_marked(w, i, rename, config, f) ==
    IF restart_refused(readVm(w, i).prt, w.now)
    THEN destroy(restart_log_fast(w, i), i, f)
    ELSE restart_finally(
             restart_try(
                 Call([w EXCEPT !.svm[w.vm[i].vmpath].prt = Some(w.now)],
                      "write.previous_restart_time"),
                 i, rename, config, f),
             i, f)

restart_called(w, i, rename, f) ==
    IF "readVm" \in f THEN Fail(w, "readVm")
    ELSE IF readVm(w, i).rip THEN destroy(Call(w, "refuse.loop"), i, f)
    ELSE IF "writeVm" \in f THEN Fail(w, "writeVm")
    ELSE restart_marked([w EXCEPT !.svm[w.vm[i].vmpath].rip = TRUE],
                        i, rename, sxpr(w, i), f)

restart(w, i, rename, f) ==
    restart_called(Call(w, IF rename THEN "renameRestart" ELSE "restart"),
                   i, rename, f)

\* A lookup that takes the reboot policy for a crash and the crash policy
\* for a reboot.
on_crossed(self, reason) ==
    CASE reason = "poweroff" -> self.on_poweroff
      [] reason = "reboot"   -> self.on_crash
      [] reason = "crash"    -> self.on_reboot

\* self.info['on_' + reason]
on_(self, reason) ==
    CASE reason = "poweroff" -> self.on_poweroff
      [] reason = "reboot"   -> self.on_reboot
      [] reason = "crash"    -> self.on_crash

maybeRestart_action(w, i, action, f) ==
    CASE action = "destroy"        -> destroy(w, i, f)
      [] action = "restart"        -> restart(w, i, FALSE, f)
      [] action = "preserve"       -> preserve(w, i, f)
      [] action = "rename-restart" -> restart(w, i, TRUE, f)

maybeRestart(w, i, reason, f) ==
    maybeRestart_action(Call(w, "maybeRestart"), i, on_(w.vm[i], reason), f)

(***************************************************************************)
(* refreshShutdown.                                                        *)
(***************************************************************************)
\* The dispatch made where the reason is found, with the lock held.
dispatch_at_once(w, i, reason) == maybeRestart(w, i, reason, {})

\* restart_reason = 'crash' / restart_reason = reason: the restart is left
\* for after the lock has been released.
set_restart_reason(w, i, reason) == [w EXCEPT !.rr = Some(reason)]

\* dom_get(dom): the hypervisor's info, or None for a domain it does not
\* have (an exception of xc.domain_getinfo is swallowed).
dom_get(w, domid) ==
    IF IsSet(domid) /\ Val(domid) \in Domids THEN w.xc[Val(domid)] ELSE None

clearRestart(w, i, f) ==
    IF "clearRestart" \in f THEN Fail(w, "clearRestart")
    ELSE IF w.vm[i].dompath
         THEN Call([w EXCEPT !.sdom[Val(w.vm[i].domid)].sst = None],
                   "clearRestart")
         ELSE Call(w, "clearRestart")

scheduler_later(w, delay, i) ==
    Call([w EXCEPT !.timers = @ \cup {[inst |-> i, due |-> w.now + delay]}],
         "scheduler.later")

\* A shutdown branch that hands every reason but suspend to the policy.
refreshShutdown_reason_policy(w, i, reason, f) ==
    IF w.exc THEN w
    ELSE IF reason = "suspend" THEN state_set(w, i, STATE_DOM_SHUTDOWN)
    ELSE set_restart_reason(
             w, i, IF reason = "reboot" THEN "reboot" ELSE "poweroff")

\* The shutdown branch after self.clearRestart().
refreshShutdown_reason(w, i, reason, f) ==
    IF w.exc THEN w
    ELSE IF reason = "suspend" THEN state_set(w, i, STATE_DOM_SHUTDOWN)
    ELSE IF reason \in {"poweroff", "reboot"}
    THEN set_restart_reason(w, i, reason)
    ELSE destroy(w, i, f)

\* An alive branch that schedules the next check a whole SHUTDOWN_TIMEOUT
\* later, whatever has elapsed.
refreshShutdown_alive_whole(w, i, f) ==
    IF ~w.vm[i].dompath THEN w
    ELSE IF ~IsSet(readDom(w, i).sst) THEN w
    ELSE IF SHUTDOWN_TIMEOUT - w.now + Val(readDom(w, i).sst) < 0
    THEN destroy(Call(w, "timeout"), i, f)
    ELSE scheduler_later(w, SHUTDOWN_TIMEOUT, i)

\* An alive branch with the test of the timeout the wrong way round.
refreshShutdown_alive_reversed(w, i, f) ==
    IF ~w.vm[i].dompath THEN w
    ELSE IF ~IsSet(readDom(w, i).sst) THEN w
    ELSE IF SHUTDOWN_TIMEOUT - w.now + Val(readDom(w, i).sst) > 0
    THEN destroy(Call(w, "timeout"), i, f)
    ELSE scheduler_later(w, 0, i)

\* The branch of a domain that is alive: the check of the shutdown timeout.
refreshShutdown_alive(w, i, f) ==
    IF ~w.vm[i].dompath THEN w
    ELSE IF ~IsSet(readDom(w, i).sst) THEN w
    ELSE IF SHUTDOWN_TIMEOUT - w.now + Val(readDom(w, i).sst) < 0
    THEN destroy(Call(w, "timeout"), i, f)
    ELSE scheduler_later(
             w, SHUTDOWN_TIMEOUT - w.now + Val(readDom(w, i).sst), i)

\* A test of the marker that never finds it.
shutdown_completed_unseen(w, i) == FALSE

\* if self.readDom('xend/shutdown_completed'): return
shutdown_completed(w, i) == readDom(w, i).completed

\* A destroy where the code has cleanupDomain.
refreshShutdown_gone_destroy(w, i, f) == destroy(w, i, f)

\* The domain no longer exists, or is dying: self.cleanupDomain(); return.
\* The VM is not cleaned up: it may have migrated to another domain.
refreshShutdown_gone(w, i, f) == cleanupDomain(w, i, f)

\* What refreshShutdown does between acquiring and releasing
\* refresh_shutdown_lock (lines 692-778), for xeninfo already fetched
\* (None: the domain does not exist).  rr is restart_reason.
refreshShutdown_locked(w, i, xeninfo, f) ==
    IF ~IsSet(xeninfo) THEN refreshShutdown_gone(w, i, f)
    ELSE IF Val(xeninfo).dying THEN refreshShutdown_gone(w, i, f)
    ELSE IF Val(xeninfo).crashed
    THEN IF shutdown_completed(w, i) THEN w
         ELSE set_restart_reason(
                  IF "enable_dump" \in f THEN Call(w, "dumpCore") ELSE w,
                  i, "crash")
    ELSE IF Val(xeninfo).shutdown
    THEN IF shutdown_completed(w, i) THEN w
         ELSE refreshShutdown_reason(
                  clearRestart(w, i, f), i,
                  shutdown_reason(Val(xeninfo).shutdown_reason), f)
    ELSE refreshShutdown_alive(w, i, f)

\* After the finally has released the lock: if restart_reason:
\* self.maybeRestart(restart_reason).
refreshShutdown_released(w, i, f) ==
    IF ~w.exc /\ IsSet(w.rr)
    THEN maybeRestart([w EXCEPT !.rr = None], i, Val(w.rr), f)
    ELSE [w EXCEPT !.rr = None]

\* refreshShutdown(xeninfo): given is the caller's xeninfo argument (None:
\* the method calls dom_get itself, under the lock).
refreshShutdown(w, i, given, f) ==
    refreshShutdown_released(
        refreshShutdown_locked(
            Call(w, "refreshShutdown"), i,
            IF IsSet(given) THEN given ELSE dom_get(w, w.vm[i].domid), f),
        i, f)

\* update(): without info, and with a domain that no longer exists, it
\* returns at once.
update(w, i, f) ==
    IF ~IsSet(dom_get(w, w.vm[i].domid)) THEN Call(w, "update")
    ELSE refreshShutdown(Call(w, "update"), i, dom_get(w, w.vm[i].domid), f)

\* shutdown(reason): TRUE when the reason is one of shutdown_reasons.values().
shutdown_reasons == {shutdown_reason(c) : c \in DOMAIN_POWEROFF..DOMAIN_HALT}

\* A shutdown that writes the marker for every reason.
shutdown_start_time_always(w, i, reason) ==
    [w EXCEPT !.sdom[Val(w.vm[i].domid)].sst = Some(w.now)]

\* if reason != 'suspend': storeDom('xend/shutdown_start_time', time.time())
shutdown_start_time(w, i, reason) ==
    IF reason # "suspend"
    THEN [w EXCEPT !.sdom[Val(w.vm[i].domid)].sst = Some(w.now)]
    ELSE w

shutdown(w, i, reason) ==
    IF reason \notin shutdown_reasons THEN Raise(Call(w, "shutdown"))
    ELSE shutdown_start_time(
             [Call(w, "shutdown") EXCEPT
                 !.sdom[Val(w.vm[i].domid)].control = Some(reason)],
             i, reason)

\* self.refreshShutdown(), the last call of completeRestore.
completeRestore_refreshShutdown(w, i, f) ==
    IF w.exc THEN w ELSE refreshShutdown(w, i, None, f)

\* completeRestore(store_mfn, console_mfn): the frames are those the caller
\* was given by the restore of the saved image.
completeRestore(w, i, store_mfn, console_mfn, f) ==
    completeRestore_refreshShutdown(
        storeDomDetails(
            introduceDomain(
                [Call(w, "completeRestore") EXCEPT
                    !.vm[i].store_mfn = Some(store_mfn),
                    !.vm[i].console_mfn = Some(console_mfn)],
                i),
            i, f),
        i, f)

(***************************************************************************)
(* recreate(xeninfo, priv): the object for a domain that already exists.   *)
(* xeninfo is the hypervisor's info of domain d, and handle its            *)
(* xeninfo['handle'].  priv decides only whether the error is logged.      *)
(***************************************************************************)
\* validateInfo's default name: "Domain-%d" % self.domid.
DomainName(d) == [prefix |-> <<>>, base |-> "Domain", suffix |-> <<d>>]

\* XendDomainInfo(xeninfo, domid, dompath, True) with what augmentInfo
\* gathered below /vm/<handle>, and the devices it found configured.
Augmented(w, d, handle, stored) ==
    [exists |-> TRUE, registered |-> FALSE, domid |-> Some(d),
     dompath |-> TRUE, vmpath |-> handle, name |-> stored.name,
     uuid |-> handle, image |-> FALSE, state |-> STATE_DOM_OK,
     on_poweroff |-> stored.on_poweroff, on_reboot |-> stored.on_reboot,
     on_crash |-> stored.on_crash, device |-> w.sdom[d].device,
     store_port |-> None, store_mfn |-> None, console_port |-> None,
     console_mfn |-> None]

\* The same with nothing in the store: validateInfo's defaults.
Defaulted(w, d, handle) ==
    [exists |-> TRUE, registered |-> FALSE, domid |-> Some(d),
     dompath |-> TRUE, vmpath |-> handle, name |-> DomainName(d),
     uuid |-> handle, image |-> FALSE, state |-> STATE_DOM_OK,
     on_poweroff |-> "destroy", on_reboot |-> "restart",
     on_crash |-> "restart", device |-> w.sdom[d].device,
     store_port |-> None, store_mfn |-> None, console_port |-> None,
     console_mfn |-> None]

recreate_init(w, d, handle) ==
    IF IsSet(w.svm[handle].info)
    THEN [w EXCEPT !.vm[d] = Augmented(w, d, handle, Val(w.svm[handle].info))]
    ELSE [w EXCEPT !.vm[d] = Defaulted(w, d, handle)]

\* The checks of the try: the vm path below the domain path, the uuid below
\* the vm path, and that uuid being the hypervisor's.
recreate_store_agrees(w, d, handle) ==
    /\ IsSet(w.sdom[d].vm)
    /\ IsSet(w.svm[Val(w.sdom[d].vm)].details)
    /\ Val(w.svm[Val(w.sdom[d].vm)].details) = handle

\* except Exception, exn: the object is built all the same, both subtrees
\* are removed and the details are stored anew.
recreate_except(w, d, f) ==
    storeDomDetails(
        storeVmDetails(removeVm(removeDom(Call(w, "adopt"), d), d), d, f),
        d, f)

\* vm.refreshShutdown(xeninfo); return vm
recreate_refreshShutdown(w, d, f) ==
    IF w.exc THEN w ELSE refreshShutdown(w, d, w.xc[d], f)

recreate_mismatch(w, d, handle, f) ==
    recreate_refreshShutdown(
        recreate_except(recreate_init(Call(w, "recreate"), d, handle), d, f),
        d, f)

\* The name validateInfo checks with check_name: the stored one, or the
\* default.  A VmError of the constructor in the try is caught, and raised
\* again by the constructor of the except branch.
recreate_name(w, d, handle) ==
    IF IsSet(w.svm[handle].info) THEN Val(w.svm[handle].info).name
    ELSE DomainName(d)

recreate(w, d, handle, f) ==
    IF "GetDomainPath" \in f
    THEN Fail(Call(w, "recreate"), "GetDomainPath")
    ELSE IF ~check_name(w, Some(d), recreate_name(w, d, handle))
    THEN Raise(Call(w, "recreate"))
    ELSE IF recreate_store_agrees(w, d, handle)
    THEN recreate_refreshShutdown(
             recreate_init(Call(w, "recreate"), d, handle), d, f)
    ELSE recreate_mismatch(w, d, handle, f)

\* XendDomain enters the recreated domain in its table.
xd_add_domain(w, d) ==
    IF w.exc THEN w ELSE [w EXCEPT !.vm[d].registered = TRUE]

xd_recreate(w, d, handle, f) == xd_add_domain(recreate(w, d, handle, f), d)

(***************************************************************************)
(* The inputs.                                                             *)
(***************************************************************************)
FaultNames ==
    {"list", "remove", "commit", "conflict", "image.destroy", "removeDom",
     "removeVm", "domain_destroy", "storeVmDetails", "storeDomDetails",
     "construct", "domain_max_vcpus", "createChannels", "createDevices",
     "parseConfig", "storeDom", "unpause", "removeVm.rip", "readVm",
     "writeVm", "clearRestart", "enable_dump"}

\* The outcomes of the external calls of one invocation: none fails, or the
\* one named call site does.
Faults == {{}} \cup {{n} : n \in FaultNames}

\* The outcomes the specification takes its steps with; the properties of a
\* handler are stated for every outcome in Faults.
TriedFaults ==
    {{}} \cup {{n} : n \in {"list", "domain_destroy", "construct", "unpause"}}

\* The on_poweroff, on_reboot, on_crash settings tried: in each the three
\* differ, and every mode is some reason's.
Policies ==
    {<<"destroy", "restart", "preserve">>,
     <<"rename-restart", "destroy", "restart">>}

Configs ==
    {Config(Name(<<>>, "vm"), 0, p[1], p[2], p[3], {"vbd"}) : p \in Policies}
    \cup {Config(Name(<<ZOMBIE_PREFIX>>, "vm"), 0, "destroy", "restart",
                 "restart", {"vbd"})}

Reasons == {"poweroff", "suspend", "bogus"}

(***************************************************************************)
(* The specification: every handler runs to completion, one at a time.     *)
(***************************************************************************)
\* Of the calls a handler made, those kept in last.
Marked ==
    {"destroy", "restart", "renameRestart", "refuse.loop", "refuse.fast",
     "unpause", "cleanupDomain", "maybeRestart", "setName"}

Events(calls) == {calls[k] : k \in 1..Len(calls)} \cap Marked

\* last after a step that is no handler's, or a handler's that did nothing.
\* No info block is under validation.
NoInfo == <<>>

NoLast == [ev |-> {}, raised |-> FALSE, destroys |-> 0]

\* The world before anything has been built.
InitWorld ==
    [vm |-> [i \in Insts |-> NoInst], ninst |-> 0,
     svm |-> [u \in Uuids |-> EmptyVm], sdom |-> [d \in Domids |-> EmptyDom],
     xc |-> [d \in Domids |-> None], timers |-> {}, now |-> 0,
     exc |-> FALSE, calls |-> <<>>, fired |-> {}, rr |-> None]

\* The variables of the program are those of world w.
Is(w) ==
    /\ vm = w.vm
    /\ ninst = w.ninst
    /\ svm = w.svm
    /\ sdom = w.sdom
    /\ xc = w.xc
    /\ timers = w.timers
    /\ now = w.now
    /\ last = NoLast

\* No thread is modelled: the handlers run one at a time.
NoThreads ==
    /\ pc = <<>>
    /\ refresh_shutdown_lock = None
    /\ state_updated = [owner |-> None, waiting |-> {}]
    /\ restart_reason = <<>>
    /\ thread_xeninfo = <<>>
    /\ under_lock = {}
    /\ dispatched = 0
    /\ self_info = NoInfo

Init == Is(InitWorld) /\ NoThreads

\* The variables take the values of the world a handler returned.
Becomes(w) ==
    /\ vm' = w.vm
    /\ ninst' = w.ninst
    /\ svm' = w.svm
    /\ sdom' = w.sdom
    /\ xc' = w.xc
    /\ timers' = w.timers
    /\ now' = now

Return(w, op) ==
    /\ \A j \in Insts : Len(w.vm[j].name.suffix) <= MaxSuffix
    /\ Becomes(w)
    /\ last' = [ev |-> Events(w.calls), raised |-> w.exc,
                destroys |-> IF op # "destroy" THEN 0
                             ELSE IF last.destroys = 0 THEN 1 ELSE 2]
    /\ UNCHANGED tvars

\* The model follows one instance at a time: the oldest that is registered
\* with XendDomain.  The instance a restart creates is followed once the
\* one that created it has been dropped (Forget).
Followed(i) ==
    /\ vm[i].registered
    /\ \A j \in Insts : vm[j].registered => i <= j

\* XendDomain calls update, shutdown and destroy on the domains of its table:
\* those it was given by create and still finds in xc.domain_getinfo.
InTable(i) == Followed(i) /\ IsSet(dom_get(World, vm[i].domid))

Create(config, f) ==
    /\ \A j \in Insts : ~vm[j].registered
    /\ ninst < MaxInst
    /\ Return(xd_domain_create(World, config, f), "create")

RefreshShutdown(i, f) ==
    /\ Followed(i)
    /\ Return(refreshShutdown(World, i, None, f), "refreshShutdown")

Update(i, f) ==
    /\ InTable(i)
    /\ Return(update(World, i, f), "update")

Shutdown(i, reason) ==
    /\ InTable(i)
    /\ ~IsSet(readDom(World, i).control)
    /\ Return(shutdown(World, i, reason), "shutdown")

Destroy(i, f) ==
    /\ InTable(i)
    /\ Return(destroy(World, i, f), "destroy")

\* An object that create gave up, or one that a restart has replaced, is
\* dropped, and with it its domain and what is left of its subtrees.
Forget(i) ==
    /\ vm[i].exists
    /\ ~vm[i].registered \/ \E j \in Insts : j > i /\ vm[j].registered
    /\ vm' = [vm EXCEPT ![i] = NoInst]
    /\ xc' = [xc EXCEPT ![i] = None]
    /\ sdom' = [sdom EXCEPT ![i] = EmptyDom]
    /\ svm' = [svm EXCEPT ![i] = EmptyVm]
    /\ timers' = {t \in timers : t.inst # i}
    /\ last' = NoLast
    /\ UNCHANGED <<ninst, now>>
    /\ UNCHANGED tvars

\* The guest and the hypervisor.
GuestCrash(d) ==
    /\ xc[d] = Some(Running)
    /\ xc' = [xc EXCEPT ![d] = Some(Crashed)]
    /\ last' = NoLast
    /\ UNCHANGED <<vm, ninst, svm, sdom, timers, now>>
    /\ UNCHANGED tvars

GuestShutdown(d, code) ==
    /\ xc[d] = Some(Running)
    /\ xc' = [xc EXCEPT ![d] = Some(Shut(code))]
    /\ last' = NoLast
    /\ UNCHANGED <<vm, ninst, svm, sdom, timers, now>>
    /\ UNCHANGED tvars

Reap(d) ==
    /\ xc[d] = Some(Dying)
    /\ xc' = [xc EXCEPT ![d] = None]
    /\ last' = NoLast
    /\ UNCHANGED <<vm, ninst, svm, sdom, timers, now>>
    /\ UNCHANGED tvars

Tick ==
    /\ now + ClockStep <= MaxTime
    /\ now' = now + ClockStep
    /\ last' = NoLast
    /\ UNCHANGED <<vm, ninst, svm, sdom, xc, timers>>
    /\ UNCHANGED tvars

Next ==
    \/ \E config \in Configs, f \in TriedFaults : Create(config, f)
    \/ \E i \in Insts, f \in TriedFaults : RefreshShutdown(i, f)
    \/ \E i \in Insts : Update(i, {})
    \/ \E i \in Insts, f \in TriedFaults : Destroy(i, f)
    \/ \E i \in Insts : Forget(i)
    \/ \E d \in Domids : GuestCrash(d)
    \/ \E d \in Domids, code \in Codes : GuestShutdown(d, code)
    \/ \E d \in Domids : Reap(d)
    \/ Tick

Spec == Init /\ [][Next]_vars

(***************************************************************************)
(* Properties of the handlers, in every state the specification reaches    *)
(* and for every outcome of their external calls.                          *)
(***************************************************************************)
Restarts(calls) == Has(calls, "restart") \/ Has(calls, "renameRestart")

ZombieCount(name) ==
    Cardinality({k \in 1..Len(name.prefix) : name.prefix[k] = ZOMBIE_PREFIX})

\* Instances that were given a domain path: those a caller can hold.
Built == {i \in Insts : vm[i].exists /\ vm[i].dompath}

\* C1: when restart() runs for a VM whose previous_restart_time marker is
\* less than MINIMUM_RESTART_TIME before now (the markers being readable and
\* writable), it calls destroy and returns without creating a domain.
C1_RestartLoopGuard ==
    \A i \in Insts, f \in Faults :
        Followed(i) =>
            LET w == refreshShutdown(World, i, None, f)
                prt == readVm(World, i).prt
            IN  (/\ IsSet(prt)
                 /\ now - Val(prt) < MINIMUM_RESTART_TIME
                 /\ "readVm" \notin f
                 /\ "writeVm" \notin f
                 /\ Restarts(w.calls))
                => /\ Has(w.calls, "destroy")
                   /\ ~Has(w.calls, "create")
                   /\ w.ninst = ninst

\* A restart was refused as too fast, and destroyed the instance.
C1_Witness ==
    /\ "refuse.fast" \in last.ev
    /\ "destroy" \in last.ev
    /\ \E i \in Insts : Followed(i) /\ vm[i].state = STATE_DOM_SHUTDOWN

\* C2: when restart() runs with no restart_in_progress marker and the
\* previous restart time absent or at least MINIMUM_RESTART_TIME in the past
\* (and no external call fails), it is not refused: it records the new
\* restart time and goes on to create the new domain, and does not destroy.
C2_RestartNotRefused ==
    \A i \in Insts :
        Followed(i) =>
            LET w == refreshShutdown(World, i, None, {})
                prt == readVm(World, i).prt
            IN  (/\ ~readVm(World, i).rip
                 /\ (IsSet(prt) => now - Val(prt) >= MINIMUM_RESTART_TIME)
                 /\ Restarts(w.calls))
                => /\ Has(w.calls, "write.previous_restart_time")
                   /\ Has(w.calls, "create")
                   /\ ~Has(w.calls, "destroy")

\* The ways a restart whose store operations succeed can end: the new domain
\* is created and resumed, its creation fails, or its resumption fails.
RestartOutcomes == {{}, {"construct"}, {"parseConfig"}, {"unpause"}}

\* C3: after restart() has returned, by any path and in either variant, the
\* restart_in_progress marker is absent from the subtree of the VM UUID
\* under which the restart was started.
C3_MarkerCleared ==
    \A i \in Insts, f \in RestartOutcomes :
        Followed(i) =>
            LET w == refreshShutdown(World, i, None, f)
            IN  Restarts(w.calls) => ~w.svm[vm[i].vmpath].rip

\* C4: when restart() finds restart_in_progress already set, it calls
\* destroy, which removes the VM's subtree and (no call failing) the domain
\* and its subtree, and returns without writing a restart time and without
\* creating a domain.
C4_RestartInProgress ==
    \A i \in Insts, f \in Faults :
        Followed(i) =>
            LET w == refreshShutdown(World, i, None, f)
                d == Val(vm[i].domid)
            IN  (readVm(World, i).rip /\ "readVm" \notin f /\ Restarts(w.calls))
                => /\ Has(w.calls, "refuse.loop")
                   /\ Has(w.calls, "destroy")
                   /\ ~Has(w.calls, "write.previous_restart_time")
                   /\ ~Has(w.calls, "create")
                   /\ w.ninst = ninst
                   /\ "removeVm" \notin f => w.svm[vm[i].vmpath] = EmptyVm
                   /\ f = {} => /\ w.vm[i].state = STATE_DOM_SHUTDOWN
                                /\ w.sdom[d] = EmptyDom
                                /\ w.xc[d] \in {None, Some(Dying)}

\* A restart found the marker set, and the VM's subtree is gone.
C4_Witness ==
    /\ "refuse.loop" \in last.ev
    /\ ~last.raised
    /\ \E i \in Insts :
           /\ Followed(i)
           /\ svm[vm[i].vmpath] = EmptyVm
           /\ vm[i].state = STATE_DOM_SHUTDOWN

\* What a handler leaves behind.
Observable(w) ==
    [vm |-> w.vm, svm |-> w.svm, sdom |-> w.sdom, xc |-> w.xc,
     timers |-> w.timers]

TeardownFaults ==
    {{n} : n \in {"list", "remove", "commit", "image.destroy", "removeDom",
                  "removeVm", "domain_destroy"}}

\* C6: whichever single step of destroy()/cleanupDomain() fails, nothing is
\* raised to the caller and the steps after it run: the image is released,
\* the subtrees whose removal did not fail are removed, the name is made a
\* zombie's and the state is SHUTDOWN.
C6_TeardownNoThrow ==
    \A i \in Built, f \in TeardownFaults :
        LET w == destroy(World, i, f)
            d == Val(vm[i].domid)
        IN  /\ ~w.exc
            /\ w.vm[i].state = STATE_DOM_SHUTDOWN
            /\ ~w.vm[i].image
            /\ startswith(w.vm[i].name, ZOMBIE_PREFIX)
            /\ "removeDom" \notin f => w.sdom[d].details = FALSE
            /\ "removeVm" \notin f => w.svm[vm[i].vmpath] = EmptyVm

\* Every notifyAll of the trace follows the acquire of state_updated.
UnderStateLock(calls) ==
    \A k \in 1..Len(calls) :
        calls[k] = "notifyAll" =>
            k > 1 /\ calls[k - 1] = "state_updated.acquire"

\* A handler that returned w kept the state's discipline: no instance went
\* from SHUTDOWN to RUNNING, and each change of a state is a state_set's,
\* made with the lock of state_updated held.
Lawful(w) ==
    /\ \A j \in Insts :
           vm[j].state = STATE_DOM_SHUTDOWN =>
               w.vm[j].state = STATE_DOM_SHUTDOWN
    /\ Cardinality({j \in Insts : w.vm[j].state # vm[j].state})
           <= Count(w.calls, "notifyAll")
    /\ UnderStateLock(w.calls)

\* C9: an instance starts RUNNING, no operation takes one from SHUTDOWN back
\* to RUNNING, and every change of the state is made by state_set with the
\* state lock held.
C9_StateMonotonic ==
    /\ \A config \in Configs : XendDomainInfo(config).state = STATE_DOM_OK
    /\ \A config \in Configs, f \in TriedFaults :
           Lawful(xd_domain_create(World, config, f))
    /\ \A i \in Built :
           /\ \A f \in TriedFaults :
                  /\ Lawful(refreshShutdown(World, i, None, f))
                  /\ Lawful(destroy(World, i, f))
                  /\ Lawful(preserve(World, i, f))
           /\ Lawful(update(World, i, {}))
           /\ \A reason \in Reasons : Lawful(shutdown(World, i, reason))

\* A restart has left the old instance SHUTDOWN beside the new one, RUNNING.
C9_Witness ==
    /\ "restart" \in last.ev
    /\ \E i, j \in Insts :
           /\ i < j
           /\ vm[i].registered
           /\ vm[i].state = STATE_DOM_SHUTDOWN
           /\ vm[j].registered
           /\ vm[j].state = STATE_DOM_OK

\* The calls by which refreshShutdown acts on a domain beyond cleaning up
\* the instance.
Acts == {"maybeRestart", "destroy", "restart", "renameRestart", "preserve",
         "create", "scheduler.later", "dumpCore", "clearRestart"}

Acted(calls) == {calls[k] : k \in 1..Len(calls)} \cap Acts

\* The hypervisor reports the domain of instance i as dying, or not at all.
Gone(i) ==
    \/ ~IsSet(dom_get(World, vm[i].domid))
    \/ Val(dom_get(World, vm[i].domid)).dying

\* C11: when refreshShutdown sees the domain dying, or the hypervisor no
\* longer has it, it does cleanupDomain and nothing else: the VM's subtree
\* is as it was, no policy action is dispatched, nothing is destroyed and
\* no timer is scheduled, whichever external call fails.
C11_DyingCleanupOnly ==
    \A i \in Built, f \in Faults :
        Gone(i) =>
            LET w == refreshShutdown(World, i, None, f)
                u == refreshShutdown(World, i, Some(Dying), f)
            IN  /\ Has(w.calls, "cleanupDomain")
                /\ Acted(w.calls) = {}
                /\ w.svm = svm
                /\ w.timers = timers
                /\ w.xc = xc
                /\ w.ninst = ninst
                /\ Has(u.calls, "cleanupDomain")
                /\ Acted(u.calls) = {}
                /\ u.svm = svm
                /\ u.timers = timers
                /\ u.xc = xc

\* A refresh has cleaned up an instance whose domain was dying or gone, and
\* the VM's subtree is still in the store.
C11_Witness ==
    /\ last.ev = {"cleanupDomain"}
    /\ ~last.raised
    /\ \E i \in Built :
           /\ Followed(i)
           /\ Gone(i)
           /\ vm[i].state = STATE_DOM_SHUTDOWN
           /\ IsSet(svm[vm[i].vmpath].details)

\* The hypervisor reports the domain of instance i as crashed or shut down.
Dead(i) ==
    /\ IsSet(dom_get(World, vm[i].domid))
    /\ ~Val(dom_get(World, vm[i].domid)).dying
    /\ \/ Val(dom_get(World, vm[i].domid)).crashed
       \/ Val(dom_get(World, vm[i].domid)).shutdown

\* The world a later invocation starts in, after one that returned w.
Later(w) == [w EXCEPT !.calls = <<>>, !.fired = {}, !.rr = None]

\* A refreshShutdown that returned w from world v did nothing.
Untouched(v, w) ==
    /\ ~w.exc
    /\ Acted(w.calls) = {}
    /\ ~Has(w.calls, "cleanupDomain")
    /\ ~Has(w.calls, "notifyAll")
    /\ Observable(w) = Observable(v)
    /\ w.ninst = v.ninst

\* C12: preserve leaves the dead domain in the hypervisor and its subtree
\* in the store, writes the shutdown_completed marker and sets the state
\* SHUTDOWN; with the marker set, a refreshShutdown (or an update) that sees
\* the domain crashed or shut down returns having dumped no core, cleared
\* no marker, dispatched nothing, destroyed nothing and changed nothing.
C12_PreserveKept ==
    \A i \in Built :
        Dead(i) =>
            LET d == Val(vm[i].domid)
                p == Later(preserve(World, i, {}))
            IN  /\ ~p.exc
                /\ p.xc = xc
                /\ p.svm = svm
                /\ p.sdom = [sdom EXCEPT ![d].completed = TRUE]
                /\ p.vm = [vm EXCEPT ![i].state = STATE_DOM_SHUTDOWN]
                /\ ~Has(preserve(World, i, {}).calls, "destroy")
                /\ \A f \in Faults :
                       /\ Untouched(p, refreshShutdown(p, i, None, f))
                       /\ Untouched(p, update(p, i, f))
                       /\ shutdown_completed(World, i) =>
                              /\ Untouched(World,
                                           refreshShutdown(World, i, None, f))
                              /\ Untouched(World, update(World, i, f))

\* A crashed domain has been preserved: it is still in the hypervisor and
\* in the store, marked completed, and its instance is SHUTDOWN.
C12_Witness ==
    \E i \in Built :
        /\ Followed(i)
        /\ Dead(i)
        /\ shutdown_completed(World, i)
        /\ vm[i].state = STATE_DOM_SHUTDOWN
        /\ sdom[Val(vm[i].domid)].details
        /\ last = NoLast

\* The reasons maybeRestart is called with.
PolicyReasons == {"poweroff", "reboot", "crash"}

\* The world in which instance i has mode as its policy for reason, and
\* another mode as its policy for the other two reasons.
WithPolicy(i, reason, mode) ==
    LET other == CHOOSE m \in restart_modes : m # mode
    IN  [World EXCEPT
            !.vm[i].on_poweroff = IF reason = "poweroff" THEN mode ELSE other,
            !.vm[i].on_reboot = IF reason = "reboot" THEN mode ELSE other,
            !.vm[i].on_crash = IF reason = "crash" THEN mode ELSE other]

\* The action a mode names, run on its own.
Action(w, i, mode, f) ==
    CASE mode = "destroy"        -> destroy(w, i, f)
      [] mode = "restart"        -> restart(w, i, FALSE, f)
      [] mode = "preserve"       -> preserve(w, i, f)
      [] mode = "rename-restart" -> restart(w, i, TRUE, f)

\* C15: for each reason poweroff, reboot, crash and each legal mode,
\* maybeRestart(reason) runs the action that the instance's on_<reason>
\* names, and nothing else: it makes the calls of that action and leaves
\* what that action leaves.  The policies of an instance are legal modes:
\* a configuration with another value is refused at construction.
C15_PolicyDispatch ==
    /\ \A i \in Insts :
           vm[i].exists => restart_events_valid(sxpr(World, i))
    /\ \A config \in Configs :
           /\ xd_domain_create(World, [config EXCEPT !.on_crash = "bogus"],
                               {}).exc
           /\ xd_domain_create(World, [config EXCEPT !.on_crash = "bogus"],
                               {}).ninst = ninst
    /\ \A i \in Built, reason \in PolicyReasons, mode \in restart_modes :
           LET v == WithPolicy(i, reason, mode)
               w == maybeRestart(v, i, reason, {})
               a == Action(v, i, mode, {})
           IN  /\ w.calls = <<"maybeRestart">> \o a.calls
               /\ w.exc = a.exc
               /\ Observable(w) = Observable(a)
               /\ w.calls[2] =
                      CASE mode = "destroy"        -> "destroy"
                        [] mode = "restart"        -> "restart"
                        [] mode = "preserve"       -> "preserve"
                        [] mode = "rename-restart" -> "renameRestart"

\* A poweroff of a domain with on_poweroff = rename-restart has been
\* dispatched to renameRestart: the dead domain is kept.
C15_Witness ==
    /\ "renameRestart" \in last.ev
    /\ \E i \in Built :
           /\ Followed(i)
           /\ vm[i].on_poweroff = "rename-restart"
           /\ xc[Val(vm[i].domid)] = Some(Shut(DOMAIN_POWEROFF))
           /\ shutdown_completed(World, i)

\* C16: when a domain with on_poweroff = destroy is seen shut down with
\* reason poweroff, then after the refresh (refreshShutdown, or update with
\* the hypervisor's info) the domain is destroyed in the hypervisor, its
\* subtree and the VM's subtree are removed from the store, the state is
\* SHUTDOWN, no restart was tried and no domain was created.
C16_PoweroffDestroy ==
    \A i \in Built :
        (/\ vm[i].on_poweroff = "destroy"
         /\ xc[Val(vm[i].domid)] = Some(Shut(DOMAIN_POWEROFF))) =>
            LET d == Val(vm[i].domid)
                w == refreshShutdown(World, i, None, {})
                u == update(World, i, {})
            IN  /\ ~w.exc
                /\ w.xc[d] = Some(Dying)
                /\ w.sdom[d] = EmptyDom
                /\ w.svm[vm[i].vmpath] = EmptyVm
                /\ w.vm[i].state = STATE_DOM_SHUTDOWN
                /\ ~Restarts(w.calls)
                /\ ~Has(w.calls, "create")
                /\ w.ninst = ninst
                /\ w.xc = [xc EXCEPT ![d] = Some(Dying)]
                /\ Observable(u) = Observable(w)

\* The policy of a domain with on_poweroff = destroy has been dispatched
\* and has destroyed it: domain dying, both subtrees gone, no new instance.
C16_Witness ==
    /\ {"maybeRestart", "destroy"} \subseteq last.ev
    /\ last.ev \cap {"restart", "renameRestart"} = {}
    /\ ~last.raised
    /\ \E i \in Built :
           /\ Followed(i)
           /\ vm[i].on_poweroff = "destroy"
           /\ xc[Val(vm[i].domid)] = Some(Dying)
           /\ sdom[Val(vm[i].domid)] = EmptyDom
           /\ svm[vm[i].vmpath] = EmptyVm
           /\ vm[i].state = STATE_DOM_SHUTDOWN
           /\ \A j \in Insts : j > i => ~vm[j].exists

\* Instance i has on_crash = restart, its domain is seen crashed, and
\* nothing stands against a restart: no shutdown_completed marker, no
\* restart in progress, and no restart in the last MINIMUM_RESTART_TIME.
CrashedForRestart(i) ==
    /\ vm[i].on_crash = "restart"
    /\ xc[Val(vm[i].domid)] = Some(Crashed)
    /\ ~shutdown_completed(World, i)
    /\ ~readVm(World, i).rip
    /\ IsSet(readVm(World, i).prt) =>
           now - Val(readVm(World, i).prt) >= MINIMUM_RESTART_TIME
    /\ ninst < MaxInst

\* C17: when a domain with on_crash = restart is seen crashed, the restart
\* creates a new domain from the configuration taken before the teardown,
\* with the same name, the same VM UUID and the same devices; the old
\* instance ends SHUTDOWN with a name that starts with 'Zombie-', and the
\* VM's subtree of that UUID is still in the store.
C17_CrashRestart ==
    \A i \in Built :
        CrashedForRestart(i) =>
            LET w == refreshShutdown(World, i, None, {})
                j == ninst + 1
            IN  /\ ~w.exc
                /\ w.ninst = j
                /\ w.vm[j].registered
                /\ w.vm[j].name = vm[i].name
                /\ w.vm[j].uuid = vm[i].uuid
                /\ w.vm[j].device = vm[i].device
                /\ w.xc[j] = Some(Running)
                /\ w.sdom[j].device = vm[i].device
                /\ w.vm[i].state = STATE_DOM_SHUTDOWN
                /\ startswith(w.vm[i].name, ZOMBIE_PREFIX)
                /\ IsSet(w.svm[vm[i].uuid].details)

\* C18: a rename-restart that is not refused keeps the dead domain in the
\* hypervisor, releases its devices, gives it a newly generated name that
\* passes check_name and a new UUID other than the original, stores its VM
\* details under the new UUID's path and marks it completed; then a new
\* domain is created from the snapshot and started, under the original
\* name and the original UUID.
C18_RenameRestart ==
    \A i \in Built :
        (/\ Dead(i)
         /\ ~shutdown_completed(World, i)
         /\ ninst < MaxInst
         /\ Has(restart(World, i, TRUE, {}).calls,
                "write.previous_restart_time")) =>
            LET w == restart(World, i, TRUE, {})
                d == Val(vm[i].domid)
                j == ninst + 1
            IN  /\ ~w.exc
                /\ w.xc[d] = xc[d]
                /\ ~Has(w.calls, "destroy")
                /\ ~Has(w.calls, "xc.domain_destroy")
                /\ w.sdom[d].device = {}
                /\ w.sdom[d].details = sdom[d].details
                /\ w.sdom[d].completed
                /\ w.vm[i].state = STATE_DOM_SHUTDOWN
                /\ w.vm[i].name # vm[i].name
                /\ check_name(World, vm[i].domid, w.vm[i].name)
                /\ w.vm[i].uuid # vm[i].uuid
                /\ w.vm[i].vmpath = w.vm[i].uuid
                /\ w.svm[w.vm[i].uuid].details = Some(w.vm[i].uuid)
                /\ w.ninst = j
                /\ w.vm[j].registered
                /\ w.vm[j].name = vm[i].name
                /\ w.vm[j].uuid = vm[i].uuid
                /\ w.vm[j].device = vm[i].device
                /\ w.xc[j] = Some(Running)
                /\ Has(w.calls, "unpause")

\* A rename-restart has run: the dead domain is kept under another name and
\* UUID, marked completed, and a new domain runs under the original ones.
C18_Witness ==
    /\ {"renameRestart", "unpause"} \subseteq last.ev
    /\ ~last.raised
    /\ \E i, j \in Built :
           /\ i < j
           /\ Dead(i)
           /\ shutdown_completed(World, i)
           /\ sdom[Val(vm[i].domid)].device = {}
           /\ vm[i].uuid # vm[j].uuid
           /\ vm[i].name # vm[j].name
           /\ vm[i].name.base = vm[j].name.base
           /\ IsSet(svm[vm[i].uuid].details)
           /\ vm[j].registered
           /\ xc[Val(vm[j].domid)] = Some(Running)

\* The calls the outer try of restart makes whose failure is one of creating
\* the new domain, resuming it, tearing the old domain down or
\* rename-preserving it.
RestartFaults ==
    {{n} : n \in {"parseConfig", "construct", "domain_max_vcpus",
                  "createChannels", "createDevices", "storeDomDetails",
                  "unpause", "domain_destroy", "list", "commit", "remove",
                  "image.destroy", "removeDom", "storeVmDetails",
                  "storeDom"}}

\* C19: restart does not raise to its caller: with one of the calls of its
\* try failing (the creation of the new domain, its unpause, the teardown of
\* the old domain or its rename and preservation), a restart of a dead
\* domain that got past its two guards returns normally.
C19_RestartNeverRaises ==
    \A i \in Built : \A rename \in BOOLEAN : \A f \in RestartFaults :
        (/\ Dead(i)
         /\ vm[i].dompath
         /\ Has(restart(World, i, rename, f).calls,
                "write.previous_restart_time")) =>
            ~restart(World, i, rename, f).exc

\* What a writer that conflicts with release_devices adds below
\* <dompath>/device, and the writers that come one after the other.
WriterEntries == {{}, {"vif"}, {"vbd", "vtpm"}}

Writers == UNION {[1..n -> WriterEntries] : n \in 0..MaxWriters}

Added(writers) == UNION {writers[k] : k \in 1..Len(writers)}

\* The release_devices loop of instance i against the writers, with the
\* outcome f of its store calls.
Released(i, f, writers) ==
    release_devices_loop(Call([World EXCEPT !.calls = <<>>],
                              "release_devices"),
                         i, f, writers)

\* Apart from the device entries of instance i and the trace, v is World.
OnlyDevices(v, i) ==
    [v EXCEPT !.sdom[Val(vm[i].domid)].device = {}, !.calls = <<>>,
              !.fired = {}] =
        [World EXCEPT !.sdom[Val(vm[i].domid)].device = {}, !.calls = <<>>,
                      !.fired = {}]

Self == 1

RefreshThreads == {"poll", "timer"}

\* Of the calls made with refresh_shutdown_lock held, those kept.
LockMarked == {"destroy", "maybeRestart", "timeout"}

InitRefresh ==
    /\ \E config \in Configs : Is(xd_domain_create(InitWorld, config, {}))
    /\ pc = [t \in RefreshThreads |-> "idle"]
    /\ refresh_shutdown_lock = None
    /\ state_updated = [owner |-> None, waiting |-> {}]
    /\ restart_reason = [t \in RefreshThreads |-> None]
    /\ thread_xeninfo = [t \in RefreshThreads |-> None]
    /\ under_lock = {}
    /\ dispatched = 0
    /\ self_info = NoInfo

\* update(): info = dom_get(self.domid); with no info it returns, with info
\* it calls refreshShutdown(info).
PollCall ==
    /\ pc["poll"] = "idle"
    /\ IsSet(dom_get(World, vm[Self].domid))
    /\ thread_xeninfo' =
           [thread_xeninfo EXCEPT !["poll"] = dom_get(World, vm[Self].domid)]
    /\ pc' = [pc EXCEPT !["poll"] = "acquire"]
    /\ UNCHANGED <<vm, ninst, svm, sdom, xc, timers, now, last,
                   refresh_shutdown_lock, state_updated, restart_reason,
                   under_lock, dispatched,
                   self_info>>

\* A callback of scheduler.later falls due: refreshShutdown().
TimerCall(tm) ==
    /\ pc["timer"] = "idle"
    /\ tm \in timers
    /\ tm.inst = Self
    /\ tm.due <= now
    /\ timers' = timers \ {tm}
    /\ thread_xeninfo' = [thread_xeninfo EXCEPT !["timer"] = None]
    /\ pc' = [pc EXCEPT !["timer"] = "acquire"]
    /\ UNCHANGED <<vm, ninst, svm, sdom, xc, now, last,
                   refresh_shutdown_lock, state_updated, restart_reason,
                   under_lock, dispatched,
                   self_info>>

\* self.refresh_shutdown_lock.acquire()
Acquire(t) ==
    /\ pc[t] = "acquire"
    /\ refresh_shutdown_lock = None
    /\ refresh_shutdown_lock' = Some(t)
    /\ pc' = [pc EXCEPT ![t] = "try"]
    /\ UNCHANGED <<vm, ninst, svm, sdom, xc, timers, now, last,
                   state_updated, restart_reason, thread_xeninfo,
                   under_lock, dispatched,
                   self_info>>

\* The body of the try, with the lock held.
Classify(t) ==
    /\ pc[t] = "try"
    /\ LET info == IF IsSet(thread_xeninfo[t]) THEN thread_xeninfo[t]
                   ELSE dom_get(World, vm[Self].domid)
           w == refreshShutdown_locked(World, Self, info, {})
       IN  /\ Becomes(w)
           /\ restart_reason' = [restart_reason EXCEPT ![t] = w.rr]
           /\ under_lock' = {w.calls[k] : k \in 1..Len(w.calls)} \cap LockMarked
    /\ pc' = [pc EXCEPT ![t] = "finally"]
    /\ UNCHANGED <<last, refresh_shutdown_lock, state_updated,
                   thread_xeninfo, dispatched,
                   self_info>>

\* finally: self.refresh_shutdown_lock.release(); then "if restart_reason".
Release(t) ==
    /\ pc[t] = "finally"
    /\ refresh_shutdown_lock' = None
    /\ under_lock' = {}
    /\ pc' = [pc EXCEPT ![t] = IF IsSet(restart_reason[t]) THEN "dispatch"
                                ELSE "idle"]
    /\ UNCHANGED <<vm, ninst, svm, sdom, xc, timers, now, last,
                   state_updated, restart_reason, thread_xeninfo, dispatched,
                   self_info>>

\* self.maybeRestart(restart_reason)
Dispatch(t) ==
    /\ pc[t] = "dispatch"
    /\ Becomes(maybeRestart(World, Self, Val(restart_reason[t]), {}))
    /\ restart_reason' = [restart_reason EXCEPT ![t] = None]
    /\ dispatched' = dispatched + 1
    /\ pc' = [pc EXCEPT ![t] = "idle"]
    /\ UNCHANGED <<last, refresh_shutdown_lock, state_updated,
                   thread_xeninfo, under_lock, self_info>>

NextRefresh ==
    \/ PollCall
    \/ \E tm \in timers : TimerCall(tm)
    \/ \E t \in RefreshThreads : Acquire(t)
    \/ \E t \in RefreshThreads : Classify(t)
    \/ \E t \in RefreshThreads : Release(t)
    \/ \E t \in RefreshThreads : Dispatch(t)
    \/ \E reason \in Reasons : Shutdown(Self, reason)
    \/ GuestCrash(Self)
    \/ \E code \in Codes : GuestShutdown(Self, code)
    \/ Reap(Self)
    \/ Tick

SpecRefresh == InitRefresh /\ [][NextRefresh]_vars

\* C7: two refreshShutdown invocations on the same instance that overlap and
\* see the same crashed or shut-down domain dispatch the restart policy's
\* action (maybeRestart) at most once for that shutdown.
C7_SingleDispatch == dispatched <= 1

\* C8: every destroy or restart that refreshShutdown triggers (the policy
\* dispatch, the destroy for the other shutdown reasons, the destroy when
\* the shutdown timeout has expired) runs with the refresh lock released.
C8_NothingUnderLock ==
    /\ \A t \in RefreshThreads :
           pc[t] = "dispatch" => refresh_shutdown_lock # Some(t)
    /\ refresh_shutdown_lock # None =>
           under_lock \cap {"destroy", "maybeRestart"} = {}

\* C8 as the code has it: the policy dispatch (maybeRestart) runs after the
\* thread has released the refresh lock and never under it; the lock is held
\* exactly from the acquire to the finally, and the destroys made in between
\* (other shutdown reasons, timeout expired) run with it held.
C8_DispatchAfterRelease ==
    /\ \A t \in RefreshThreads :
           /\ pc[t] = "dispatch" => refresh_shutdown_lock # Some(t)
           /\ refresh_shutdown_lock = Some(t) <=> pc[t] \in {"try", "finally"}
    /\ "maybeRestart" \notin under_lock
    /\ "destroy" \in under_lock =>
           \E t \in RefreshThreads :
               refresh_shutdown_lock = Some(t) /\ pc[t] = "finally"

\* A thread is about to dispatch while the other holds the lock, having
\* destroyed the domain under it.
C8_Witness ==
    \E t, u \in RefreshThreads :
        /\ pc[t] = "dispatch"
        /\ refresh_shutdown_lock = Some(u)
        /\ "destroy" \in under_lock

\* The hypervisor reports the domain of Self as shut down (not dying, not
\* crashed), and the store has no shutdown_completed marker for it.
ShutUnhandled ==
    /\ vm[Self].dompath
    /\ IsSet(xc[Self])
    /\ ~Val(xc[Self]).dying
    /\ ~Val(xc[Self]).crashed
    /\ Val(xc[Self]).shutdown
    /\ ~shutdown_completed(World, Self)

\* The world after the clearRestart of the shutdown branch.
Cleared == Later(clearRestart(World, Self, {}))

\* C13: a refreshShutdown that sees the domain shut down, with no completed
\* marker, first removes the shutdown_start_time marker and then acts by the
\* reason: suspend sets the state SHUTDOWN and destroys nothing and removes
\* no subtree; poweroff and reboot go to maybeRestart with that reason;
\* every other reason (halt, the crash code, an unknown code) calls destroy
\* and no policy is consulted.
C13_ShutdownByReason ==
    ShutUnhandled =>
        LET reason == shutdown_reason(Val(xc[Self]).shutdown_reason)
            w == refreshShutdown(World, Self, None, {})
        IN  /\ w.calls[2] = "clearRestart"
            /\ \A f \in Faults :
                   /\ reason \notin {"poweroff", "reboot"} =>
                          ~Has(refreshShutdown(World, Self, None, f).calls,
                               "maybeRestart")
                   /\ reason = "suspend" =>
                          /\ ~Has(refreshShutdown(World, Self, None, f).calls,
                                  "destroy")
                          /\ refreshShutdown(World, Self, None, f).xc = xc
                          /\ refreshShutdown(World, Self, None, f).svm = svm
            /\ reason = "suspend" =>
                   /\ ~w.exc
                   /\ Acted(w.calls) = {"clearRestart"}
                   /\ ~Has(w.calls, "cleanupDomain")
                   /\ w.vm = [vm EXCEPT ![Self].state = STATE_DOM_SHUTDOWN]
                   /\ w.sdom = [sdom EXCEPT ![Self].sst = None]
            /\ reason \in {"poweroff", "reboot"} =>
                   /\ w.calls[3] = "maybeRestart"
                   /\ Observable(w) =
                          Observable(maybeRestart(Cleared, Self, reason, {}))
            /\ reason \notin {"suspend", "poweroff", "reboot"} =>
                   /\ w.calls[3] = "destroy"
                   /\ Observable(w) = Observable(destroy(Cleared, Self, {}))
                   /\ w.xc[Self] = Some(Dying)
                   /\ w.sdom[Self].sst = None

\* A suspend has been seen after a shutdown request for it: the instance is
\* SHUTDOWN, the domain is still shut down in the hypervisor and its
\* subtree is in the store, without a shutdown_start_time.
C13_Witness ==
    /\ vm[Self].state = STATE_DOM_SHUTDOWN
    /\ xc[Self] = Some(Shut(DOMAIN_SUSPEND))
    /\ sdom[Self].details
    /\ sdom[Self].control = Some("suspend")
    /\ sdom[Self].sst = None
    /\ ~shutdown_completed(World, Self)

\* The domain of Self is alive and has its path in the store.
Alive ==
    /\ vm[Self].dompath
    /\ xc[Self] = Some(Running)

\* The times at which a refresh may read the clock: from now until after
\* the grace period of a shutdown requested at MaxTime.
Times == {t \in 0..(MaxTime + SHUTDOWN_TIMEOUT + 1) : t >= now}

\* The world when the clock reads t.
At(t) == [World EXCEPT !.now = t]

\* C14: for a domain that is alive, with its path established, and with a
\* shutdown_start_time sst: a refreshShutdown made more than
\* SHUTDOWN_TIMEOUT after sst destroys the domain and schedules nothing;
\* one made earlier destroys nothing, whichever call fails, and schedules
\* one refreshShutdown for the remaining time
\* SHUTDOWN_TIMEOUT - (now - sst), which is 0 at exactly SHUTDOWN_TIMEOUT
\* after sst.  With no shutdown_start_time the refresh does nothing.
C14_ShutdownTimeout ==
    Alive =>
        \A t \in Times :
            LET sst == sdom[Self].sst
                w == refreshShutdown(At(t), Self, None, {})
            IN  /\ ~IsSet(sst) => Untouched(At(t), w)
                /\ (IsSet(sst) /\ t - Val(sst) > SHUTDOWN_TIMEOUT) =>
                       /\ Has(w.calls, "destroy")
                       /\ w.xc[Self] = Some(Dying)
                       /\ w.vm[Self].state = STATE_DOM_SHUTDOWN
                       /\ w.timers = timers
                /\ (IsSet(sst) /\ t - Val(sst) <= SHUTDOWN_TIMEOUT) =>
                       /\ ~w.exc
                       /\ Acted(w.calls) = {"scheduler.later"}
                       /\ ~Has(w.calls, "cleanupDomain")
                       /\ w.vm = vm
                       /\ w.svm = svm
                       /\ w.sdom = sdom
                       /\ w.xc = xc
                       /\ w.timers = timers \cup
                              {[inst |-> Self,
                                due |-> t + (SHUTDOWN_TIMEOUT - (t - Val(sst)))]}
                       /\ \A f \in Faults :
                              ~Has(refreshShutdown(At(t), Self, None, f).calls,
                                   "destroy")

\* A refresh has found the shutdown timeout expired and destroyed the
\* domain.
C14_Witness ==
    /\ "timeout" \in under_lock
    /\ xc[Self] = Some(Dying)
    /\ vm[Self].state = STATE_DOM_SHUTDOWN
    /\ now > SHUTDOWN_TIMEOUT

(***************************************************************************)
(* Threads in waitForShutdown and in state_set(STATE_DOM_SHUTDOWN), on the *)
(* condition state_updated of instance Self.                               *)
(***************************************************************************)
Waiters == {<<"waiter", n>> : n \in 1..MaxWaiters}
Setters == {<<"setter", n>> : n \in 1..MaxSetters}

InitWait ==
    /\ \E config \in Configs : Is(xd_domain_create(InitWorld, config, {}))
    /\ pc = [t \in Waiters \cup Setters |-> "idle"]
    /\ refresh_shutdown_lock = None
    /\ state_updated = [owner |-> None, waiting |-> {}]
    /\ restart_reason = <<>>
    /\ thread_xeninfo = <<>>
    /\ under_lock = {}
    /\ dispatched = 0
    /\ self_info = NoInfo

\* The variables the threads of state_updated leave alone.
wait_unchanged ==
    <<ninst, svm, sdom, xc, timers, now, last, refresh_shutdown_lock,
      restart_reason, thread_xeninfo, under_lock, dispatched,
                   self_info>>

\* waitForShutdown: self.state_updated.acquire()
WaitAcquire(t) ==
    /\ pc[t] = "idle"
    /\ state_updated.owner = None
    /\ state_updated' = [state_updated EXCEPT !.owner = Some(t)]
    /\ pc' = [pc EXCEPT ![t] = "while"]
    /\ UNCHANGED vm
    /\ UNCHANGED wait_unchanged

\* while self.state == STATE_DOM_OK
WaitTest(t) ==
    /\ pc[t] = "while"
    /\ pc' = [pc EXCEPT ![t] = IF vm[Self].state = STATE_DOM_OK THEN "wait"
                                ELSE "finally"]
    /\ UNCHANGED <<vm, state_updated>>
    /\ UNCHANGED wait_unchanged

\* self.state_updated.wait(): the thread joins the waiters and releases the
\* lock.
WaitWait(t) ==
    /\ pc[t] = "wait"
    /\ state_updated' = [owner |-> None,
                         waiting |-> state_updated.waiting \cup {t}]
    /\ pc' = [pc EXCEPT ![t] = "waiting"]
    /\ UNCHANGED vm
    /\ UNCHANGED wait_unchanged

\* wait() returns: the thread has been notified and has the lock again.
WaitWake(t) ==
    /\ pc[t] = "waiting"
    /\ t \notin state_updated.waiting
    /\ state_updated.owner = None
    /\ state_updated' = [state_updated EXCEPT !.owner = Some(t)]
    /\ pc' = [pc EXCEPT ![t] = "while"]
    /\ UNCHANGED vm
    /\ UNCHANGED wait_unchanged

\* finally: self.state_updated.release(); waitForShutdown returns.
WaitRelease(t) ==
    /\ pc[t] = "finally"
    /\ state_updated' = [state_updated EXCEPT !.owner = None]
    /\ pc' = [pc EXCEPT ![t] = "returned"]
    /\ UNCHANGED vm
    /\ UNCHANGED wait_unchanged

\* state_set: self.state_updated.acquire()
SetAcquire(t) ==
    /\ pc[t] = "idle"
    /\ state_updated.owner = None
    /\ state_updated' = [state_updated EXCEPT !.owner = Some(t)]
    /\ pc' = [pc EXCEPT ![t] = "try"]
    /\ UNCHANGED vm
    /\ UNCHANGED wait_unchanged

\* if self.state != state: self.state = state; notifyAll()
SetState(t) ==
    /\ pc[t] = "try"
    /\ IF vm[Self].state # STATE_DOM_SHUTDOWN
       THEN /\ vm' = [vm EXCEPT ![Self].state = STATE_DOM_SHUTDOWN]
            /\ state_updated' =
                   [state_updated EXCEPT
                       !.waiting = notifyAll(state_updated.waiting)]
       ELSE UNCHANGED <<vm, state_updated>>
    /\ pc' = [pc EXCEPT ![t] = "finally"]
    /\ UNCHANGED wait_unchanged

\* finally: self.state_updated.release()
SetRelease(t) ==
    /\ pc[t] = "finally"
    /\ state_updated' = [state_updated EXCEPT !.owner = None]
    /\ pc' = [pc EXCEPT ![t] = "returned"]
    /\ UNCHANGED vm
    /\ UNCHANGED wait_unchanged

Waiter(t) ==
    \/ WaitAcquire(t)
    \/ WaitTest(t)
    \/ WaitWait(t)
    \/ WaitWake(t)
    \/ WaitRelease(t)

Setter(t) ==
    \/ SetAcquire(t)
    \/ SetState(t)
    \/ SetRelease(t)

NextWait ==
    \/ \E t \in Waiters : Waiter(t)
    \/ \E t \in Setters : Setter(t)

\* A thread that can take a step is scheduled in the end.
SpecWait ==
    /\ InitWait
    /\ [][NextWait]_vars
    /\ \A t \in Waiters : WF_vars(Waiter(t))
    /\ \A t \in Setters : WF_vars(Setter(t))

\* C10: waitForShutdown returns only with the state no longer RUNNING, and
\* a thread that is in waitForShutdown when the state is SHUTDOWN returns in
\* the end, wherever it was in its check and wait when the state was set.
C10_WaitForShutdown ==
    /\ [](\A t \in Waiters :
              pc[t] = "returned" => vm[Self].state # STATE_DOM_OK)
    /\ \A t \in Waiters :
           (pc[t] # "idle" /\ vm[Self].state = STATE_DOM_SHUTDOWN)
               ~> (pc[t] = "returned")

\* A waiter that was blocked has been notified, and another has returned.
C10_Witness ==
    \E t, u \in Waiters :
        /\ pc[t] = "waiting"
        /\ t \notin state_updated.waiting
        /\ pc[u] = "returned"

(***************************************************************************)
(* validateInfo: the memory settings of the info block (lines 443-502).    *)
(* memory and maxmem come from outside in MiB, mem_kb and maxmem_kb in     *)
(* KiB; validateInfo leaves memory_KiB and maxmem_KiB only.  A key that is *)
(* absent, or None, is None here.                                          *)
(***************************************************************************)
\* if not self.info['maxmem_KiB']: self.info['maxmem_KiB'] = 1 << 30
maxmem_KiB_default == 1073741824

\* The info block parseConfig returns for the four settings.
parseConfig(memory, mem_kb, maxmem, maxmem_kb) ==
    [memory |-> memory, mem_kb |-> mem_kb, maxmem |-> maxmem,
     maxmem_kb |-> maxmem_kb, memory_KiB |-> None, maxmem_KiB |-> None]

\* The settings tried, in MiB: absent, negative, 0..MaxMiB, and one MiB more
\* than the default maximum.
MiBs ==
    {None, Some(-1)} \cup {Some(m) : m \in 0..MaxMiB}
        \cup {Some(maxmem_KiB_default \div 1024 + 1)}

\* The settings tried, in KiB: absent, negative, the whole MiBs and one KiB
\* more than each of them, and one MiB more than the default maximum.
KiBs ==
    {None, Some(-1)}
        \cup {Some(1024 * m + r) : m \in 0..MaxMiB, r \in 0..1}
        \cup {Some(maxmem_KiB_default + 1024)}

infoIsSet(self, name) == IsSet(self[name])

\* A discard_negatives that leaves a negative setting in the info block.
discard_negatives_kept(self, name) == self

\* if self.infoIsSet(name) and self.info[name] < 0: del self.info[name]
discard_negatives(self, name) ==
    IF infoIsSet(self, name) /\ Val(self[name]) < 0
    THEN [self EXCEPT ![name] = None]
    ELSE self

\* What a function of validateInfo gives: a value, or VmError raised.
Returns(v) == [exc |-> FALSE, result |-> v]
VmError == [exc |-> TRUE, result |-> None]

\* valid_KiB_ after its two discard_negatives.
valid_KiB_discarded(self, mb_name, kb_name) ==
    IF infoIsSet(self, kb_name)
    THEN IF infoIsSet(self, mb_name)
         THEN IF Val(self[mb_name]) * 1024 = Val(self[kb_name])
              THEN Returns(self[kb_name])
              ELSE VmError
         ELSE Returns(self[kb_name])
    ELSE IF infoIsSet(self, mb_name)
    THEN Returns(Some(Val(self[mb_name]) * 1024))
    ELSE Returns(None)

discarded(self, mb_name, kb_name) ==
    discard_negatives(discard_negatives(self, kb_name), mb_name)

valid_KiB_(self, mb_name, kb_name) ==
    valid_KiB_discarded(discarded(self, mb_name, kb_name), mb_name, kb_name)

\* if result is None or result < 0: raise VmError('Invalid ...')
valid_KiB_checked(r) ==
    IF r.exc THEN r
    ELSE IF ~IsSet(r.result) THEN VmError
    ELSE IF Val(r.result) < 0 THEN VmError
    ELSE r

valid_KiB(self, mb_name, kb_name) ==
    valid_KiB_checked(valid_KiB_(self, mb_name, kb_name))

\* validateInfo's result: the info block as it is left, and whether VmError
\* was raised.
Validated(self) == [info |-> self, exc |-> FALSE]
Rejected(self) == [info |-> self, exc |-> TRUE]

\* A validateInfo that leaves the maximum as it was given or defaulted.
validateInfo_unclamped(self) == Validated(self)

\* if maxmem_KiB > memory_KiB: maxmem_KiB = memory_KiB
validateInfo_clamp(self) ==
    IF Val(self.maxmem_KiB) > Val(self.memory_KiB)
    THEN Validated([self EXCEPT !.maxmem_KiB = self.memory_KiB])
    ELSE Validated(self)

\* if not maxmem_KiB: maxmem_KiB = 1 << 30 (None and 0 are both false)
validateInfo_default(self) ==
    IF ~IsSet(self.maxmem_KiB) \/ self.maxmem_KiB = Some(0)
    THEN validateInfo_clamp(
             [self EXCEPT !.maxmem_KiB = Some(maxmem_KiB_default)])
    ELSE validateInfo_clamp(self)

\* self.info['maxmem_KiB'] = valid_KiB_('maxmem', 'maxmem_kb');
\* delIf('maxmem'); delIf('maxmem_kb')
validateInfo_maxmem(self) ==
    IF valid_KiB_(self, "maxmem", "maxmem_kb").exc
    THEN Rejected(discarded(self, "maxmem", "maxmem_kb"))
    ELSE validateInfo_default(
             [self EXCEPT
                 !.maxmem_KiB = valid_KiB_(self, "maxmem", "maxmem_kb").result,
                 !.maxmem = None, !.maxmem_kb = None])

\* self.info['memory_KiB'] = valid_KiB('memory', 'mem_kb');
\* delIf('memory'); delIf('mem_kb'); and the rest.
validateInfo(self) ==
    IF valid_KiB(self, "memory", "mem_kb").exc
    THEN Rejected(discarded(self, "memory", "mem_kb"))
    ELSE validateInfo_maxmem(
             [self EXCEPT
                 !.memory_KiB = valid_KiB(self, "memory", "mem_kb").result,
                 !.memory = None, !.mem_kb = None])

\* What restart builds the new domain from: sxpr() gives memory and maxmem
\* as memory_KiB / 1024 and maxmem_KiB / 1024, and parseConfig reads them.
sxpr_memory(self) ==
    parseConfig(Some(Val(self.memory_KiB) \div 1024), None,
                Some(Val(self.maxmem_KiB) \div 1024), None)

InitValidate ==
    /\ Is(InitWorld)
    /\ pc = <<>>
    /\ refresh_shutdown_lock = None
    /\ state_updated = [owner |-> None, waiting |-> {}]
    /\ restart_reason = <<>>
    /\ thread_xeninfo = <<>>
    /\ under_lock = {}
    /\ dispatched = 0
    /\ \E memory \in MiBs, mem_kb \in KiBs, maxmem \in MiBs, maxmem_kb \in KiBs :
           self_info = parseConfig(memory, mem_kb, maxmem, maxmem_kb)

validate_unchanged ==
    <<vm, ninst, svm, sdom, xc, timers, now, pc, refresh_shutdown_lock,
      state_updated, restart_reason, thread_xeninfo, under_lock, dispatched>>

\* __init__ calls validateInfo on the info block it was given.
Validate ==
    /\ last.ev = {}
    /\ self_info' = validateInfo(self_info).info
    /\ last' = [ev |-> {"validateInfo"}, raised |-> validateInfo(self_info).exc,
                destroys |-> 0, given |-> self_info]
    /\ UNCHANGED validate_unchanged

\* The domain is restarted: a new info block is parsed from sxpr().
Reparse ==
    /\ last.ev = {"validateInfo"}
    /\ ~last.raised
    /\ self_info' = sxpr_memory(self_info)
    /\ last' = NoLast
    /\ UNCHANGED validate_unchanged

NextValidate ==
    \/ Validate
    \/ Reparse

SpecValidate == InitValidate /\ [][NextValidate]_vars

\* A setting that is there and not negative.
Given(g, name) == IsSet(g[name]) /\ Val(g[name]) >= 0

\* A memory setting is valid: memory or mem_kb is given, and if both are
\* they agree.
ValidMemory(g) ==
    /\ Given(g, "memory") \/ Given(g, "mem_kb")
    /\ (Given(g, "memory") /\ Given(g, "mem_kb")) =>
           Val(g.memory) * 1024 = Val(g.mem_kb)

\* maxmem and maxmem_kb do not contradict each other.
ConsistentMaximum(g) ==
    (Given(g, "maxmem") /\ Given(g, "maxmem_kb")) =>
        Val(g.maxmem) * 1024 = Val(g.maxmem_kb)

\* The memory and the maximum that were given, in KiB (0: no maximum).
GivenMemory(g) ==
    IF Given(g, "mem_kb") THEN Val(g.mem_kb) ELSE Val(g.memory) * 1024

GivenMaximum(g) ==
    IF Given(g, "maxmem_kb") THEN Val(g.maxmem_kb)
    ELSE IF Given(g, "maxmem") THEN Val(g.maxmem) * 1024
    ELSE 0

Smaller(a, b) == IF a <= b THEN a ELSE b

\* C20: for an input with a valid memory setting (and a maximum that is not
\* given twice with contradicting values), validateInfo raises no error and
\* leaves maxmem_KiB <= memory_KiB: memory_KiB is the memory given, and
\* maxmem_KiB is the smaller of memory_KiB and the maximum given, or of
\* memory_KiB and the default when the maximum is unset, negative or zero.
\* Whenever validateInfo returns, maxmem_KiB <= memory_KiB.
C20_MaxmemClamped ==
    last.ev = {"validateInfo"} =>
        /\ (ValidMemory(last.given) /\ ConsistentMaximum(last.given)) =>
               /\ ~last.raised
               /\ self_info.memory_KiB = Some(GivenMemory(last.given))
               /\ self_info.maxmem_KiB =
                      Some(Smaller(GivenMemory(last.given),
                                   IF GivenMaximum(last.given) = 0
                                   THEN maxmem_KiB_default
                                   ELSE GivenMaximum(last.given)))
        /\ ~last.raised =>
               /\ IsSet(self_info.memory_KiB)
               /\ IsSet(self_info.maxmem_KiB)
               /\ Val(self_info.maxmem_KiB) <= Val(self_info.memory_KiB)
               /\ ~infoIsSet(self_info, "memory")
               /\ ~infoIsSet(self_info, "mem_kb")
               /\ ~infoIsSet(self_info, "maxmem")
               /\ ~infoIsSet(self_info, "maxmem_kb")

\* validateInfo has returned for an input whose maximum was larger than its
\* memory: the maximum left is the memory.
C20_Witness ==
    /\ last.ev = {"validateInfo"}
    /\ ~last.raised
    /\ ValidMemory(last.given)
    /\ GivenMemory(last.given) > 0
    /\ GivenMaximum(last.given) > GivenMemory(last.given)
    /\ self_info.maxmem_KiB = self_info.memory_KiB
    /\ self_info.memory_KiB = Some(GivenMemory(last.given))

\* The two pairs of settings: the one in MiB and the one in KiB.
UnitPairs == {<<"memory", "mem_kb">>, <<"maxmem", "maxmem_kb">>}

\* The pair contradicts itself: both are given and MiB * 1024 # KiB.
Contradicts(g, mb_name, kb_name) ==
    /\ Given(g, mb_name)
    /\ Given(g, kb_name)
    /\ Val(g[mb_name]) * 1024 # Val(g[kb_name])

\* C21: for each of (memory, mem_kb) and (maxmem, maxmem_kb) a negative
\* value counts as absent; with both given and MiB * 1024 # KiB the
\* resolution raises VmError; otherwise the result is the KiB value, or the
\* MiB value times 1024, or nothing when neither is given.  A memory that
\* neither unit gives is VmError, and validateInfo raises exactly when the
\* memory is not valid or the maximum contradicts itself.
C21_UnitResolution ==
    last.ev = {"validateInfo"} =>
        /\ \A p \in UnitPairs :
               /\ valid_KiB_(last.given, p[1], p[2]).exc
                      <=> Contradicts(last.given, p[1], p[2])
               /\ ~Contradicts(last.given, p[1], p[2]) =>
                      valid_KiB_(last.given, p[1], p[2]).result =
                          IF Given(last.given, p[2]) THEN last.given[p[2]]
                          ELSE IF Given(last.given, p[1])
                          THEN Some(Val(last.given[p[1]]) * 1024)
                          ELSE None
        /\ valid_KiB(last.given, "memory", "mem_kb").exc
               <=> ~ValidMemory(last.given)
        /\ last.raised <=>
               (~ValidMemory(last.given) \/ ~ConsistentMaximum(last.given))
        /\ ~last.raised =>
               self_info.memory_KiB = Some(GivenMemory(last.given))

\* validateInfo has raised for a memory that is valid once its negative
\* unit is dropped, with a maximum whose two units contradict each other.
C21_Witness ==
    /\ last.ev = {"validateInfo"}
    /\ last.raised
    /\ ValidMemory(last.given)
    /\ last.given.memory = Some(-1) \/ last.given.mem_kb = Some(-1)
    /\ Contradicts(last.given, "maxmem", "maxmem_kb")

(***************************************************************************)
(* parseConfig and validateInfo: the VCPU settings and the restart         *)
(* policies of the info block, and setVCpuCount.                           *)
(***************************************************************************)
\* x & (1 << n)
Bit(x, n) == (x \div (2 ^ n)) % 2 = 1

\* The configurations tried.  vcpus is the top-level entry; image is absent
\* (None), or Some of its own vcpus entry, itself absent or a count.  An
\* explicit policy is "preserve", which no shorthand gives.
ConfigSxps ==
    [vcpus : {None} \cup {Some(n) : n \in 1..MaxVcpus},
     image : {None, Some(None)} \cup {Some(Some(n)) : n \in 1..MaxVcpus},
     vcpu_avail : {None} \cup {Some(a) : a \in 0..(2 ^ (MaxVcpus + 1) - 1)},
     restart : {None, Some("onreboot"), Some("always"), Some("never"),
                Some("sometimes")},
     on_poweroff : {None, Some("preserve")},
     on_reboot : {None, Some("preserve")},
     on_crash : {None, Some("preserve")}]

\* Lines 264-269: if result['image']: vcpus = int(child_value(image, 'vcpus',
\* 1)) else: vcpus = 1, whatever the loop over ROUNDTRIPPING_CONFIG_ENTRIES
\* has put in result['vcpus'].
parseConfig_vcpus(config) ==
    IF IsSet(config.image)
    THEN IF IsSet(Val(config.image)) THEN Val(config.image) ELSE Some(1)
    ELSE Some(1)

\* A handle_restart that sets the policy whether or not one was given.
handle_restart_always(result, event, val) == [result EXCEPT ![event] = Some(val)]

\* def handle_restart(event, val): if result[event] is None: result[event] = val
handle_restart(result, event, val) ==
    IF result[event] = None THEN [result EXCEPT ![event] = Some(val)]
    ELSE result

\* The three handle_restart calls of one shorthand.
handle_restarts(result, off, reboot, crash) ==
    handle_restart(
        handle_restart(handle_restart(result, "on_poweroff", off),
                       "on_reboot", reboot),
        "on_crash", crash)

\* Lines 284-306: the deprecated option "restart".
parseConfig_restart(result, shorthand) ==
    IF ~IsSet(shorthand) THEN result
    ELSE IF shorthand = Some("onreboot")
    THEN handle_restarts(result, "destroy", "restart", "destroy")
    ELSE IF shorthand = Some("always")
    THEN handle_restarts(result, "restart", "restart", "restart")
    ELSE IF shorthand = Some("never")
    THEN handle_restarts(result, "destroy", "destroy", "destroy")
    ELSE result

\* parseConfig(config): the entries of the result that are modelled here.
parseConfig_result(config) ==
    parseConfig_restart(
        [vcpus |-> parseConfig_vcpus(config),
         vcpu_avail |-> config.vcpu_avail,
         on_poweroff |-> config.on_poweroff,
         on_reboot |-> config.on_reboot,
         on_crash |-> config.on_crash],
        config.restart)

\* def defaultInfo(name, val): if not self.infoIsSet(name): info[name] = val()
defaultInfo(self, name, val) ==
    IF infoIsSet(self, name) THEN self ELSE [self EXCEPT ![name] = Some(val)]

\* Lines 423-428: the defaults of the policies and of vcpus.
validateInfo_policies(self) ==
    defaultInfo(
        defaultInfo(
            defaultInfo(defaultInfo(self, "on_poweroff", "destroy"),
                        "on_reboot", "restart"),
            "on_crash", "restart"),
        "vcpus", 1)

\* defaultInfo('vcpu_avail', lambda: (1 << self.info['vcpus']) - 1)
validateInfo_vcpu_avail(self) ==
    defaultInfo(self, "vcpu_avail", 2 ^ Val(self.vcpus) - 1)

\* self.info['vcpu_avail'] = (1 << vcpus) - 1
setVCpuCount(self, vcpus) == [self EXCEPT !.vcpu_avail = Some(2 ^ vcpus - 1)]

InitConfig ==
    /\ Is(InitWorld)
    /\ pc = <<>>
    /\ refresh_shutdown_lock = None
    /\ state_updated = [owner |-> None, waiting |-> {}]
    /\ restart_reason = <<>>
    /\ thread_xeninfo = <<>>
    /\ under_lock = {}
    /\ dispatched = 0
    /\ self_info \in ConfigSxps

\* XendDomainInfo(parseConfig(config)): the info block after parseConfig.
ParseConfig ==
    /\ last.ev = {}
    /\ self_info' = parseConfig_result(self_info)
    /\ last' = [ev |-> {"parseConfig"}, raised |-> FALSE, destroys |-> 0,
                given |-> self_info]
    /\ UNCHANGED validate_unchanged

\* __init__: validateInfo on the parsed info block.
ValidateDefaults ==
    /\ last.ev = {"parseConfig"}
    /\ self_info' = validateInfo_vcpu_avail(validateInfo_policies(self_info))
    /\ last' = [last EXCEPT !.ev = {"validateInfo"}]
    /\ UNCHANGED validate_unchanged

\* setVCpuCount(vcpus) on the constructed instance.
SetVCpuCount(vcpus) ==
    /\ last.ev \in {{"validateInfo"}, {"setVCpuCount"}}
    /\ self_info' = setVCpuCount(self_info, vcpus)
    /\ last' = [last EXCEPT !.ev = {"setVCpuCount"}]
    /\ UNCHANGED validate_unchanged

NextConfig ==
    \/ ParseConfig
    \/ ValidateDefaults
    \/ \E vcpus \in 0..MaxVcpus : SetVCpuCount(vcpus)

SpecConfig == InitConfig /\ [][NextConfig]_vars

\* The instance is constructed: validateInfo has returned.
Constructed == last.ev \in {{"validateInfo"}, {"setVCpuCount"}}

\* C22: in every state after validation, through any calls of setVCpuCount,
\* vcpu_avail has no bit set at a position >= vcpus.
C22_VcpuAvailFits ==
    Constructed =>
        \A n \in 0..MaxVcpus :
            n >= Val(self_info.vcpus) => ~Bit(Val(self_info.vcpu_avail), n)

\* The policies (on_poweroff, on_reboot, on_crash) of the shorthands.
Shorthands ==
    [onreboot |-> [on_poweroff |-> "destroy", on_reboot |-> "restart",
                   on_crash |-> "destroy"],
     always |-> [on_poweroff |-> "restart", on_reboot |-> "restart",
                 on_crash |-> "restart"],
     never |-> [on_poweroff |-> "destroy", on_reboot |-> "destroy",
                on_crash |-> "destroy"]]

Events3 == {"on_poweroff", "on_reboot", "on_crash"}

\* C25: parseConfig raises nothing for the option "restart"; a policy the
\* configuration gives is the one in the result; a policy it does not give
\* is the one the shorthand names ('onreboot': destroy, restart, destroy;
\* 'always': restart three times; 'never': destroy three times), and stays
\* unset with no shorthand or an unrecognized one.
C25_RestartShorthand ==
    last.ev = {"parseConfig"} =>
        /\ ~last.raised
        /\ \A e \in Events3 :
               self_info[e] =
                   IF IsSet(last.given[e]) THEN last.given[e]
                   ELSE IF IsSet(last.given.restart)
                           /\ Val(last.given.restart) \in DOMAIN Shorthands
                   THEN Some(Shorthands[Val(last.given.restart)][e])
                   ELSE None

\* parseConfig has returned for 'onreboot' with on_reboot given: the given
\* policy is kept and the other two are the shorthand's.
C25_Witness ==
    /\ last.ev = {"parseConfig"}
    /\ last.given.restart = Some("onreboot")
    /\ last.given.on_reboot = Some("preserve")
    /\ self_info.on_poweroff = Some("destroy")
    /\ self_info.on_reboot = Some("preserve")
    /\ self_info.on_crash = Some("destroy")

\* C26: parseConfig keeps a VCPU count the configuration gives at its top
\* level; without one it takes the image's, and 1 when neither is there.
C26_VcpusFromImage ==
    last.ev = {"parseConfig"} =>
        self_info.vcpus =
            IF IsSet(last.given.vcpus) THEN last.given.vcpus
            ELSE IF IsSet(last.given.image) /\ IsSet(Val(last.given.image))
            THEN Val(last.given.image)
            ELSE Some(1)

(***************************************************************************)
(* Names: several domains are created and renamed next to each other.      *)
(***************************************************************************)
\* The names tried: two well-formed ones, one with every other allowed
\* character, the empty one, two with a character that is not allowed, and
\* 'Zombie-vm', 'vm-1' and 'db-1', which cleanupDomain and
\* generateUniqueName would make of the first two.
NamesTried ==
    {Name(<<>>, b) : b \in {"vm", "db", "a_-.:/+9", "", "v m", "vm!"}}
        \cup {Name(<<ZOMBIE_PREFIX>>, "vm")}
        \cup {[Name(<<>>, b) EXCEPT !.suffix = <<1>>] : b \in {"vm", "db"}}

\* xd.domain_create(config) while other domains are in the table.
CreateNamed(name) ==
    /\ ninst < MaxInst
    /\ Return(xd_domain_create(World,
                               Config(name, 0, "destroy", "restart",
                                      "restart", {"vbd"}),
                               {}),
              "create")

SetName(i, name) ==
    /\ vm[i].registered
    /\ Return(setName(World, i, name), "setName")

NextNames ==
    \/ \E name \in NamesTried : CreateNamed(name)
    \/ \E i \in Insts, name \in NamesTried : SetName(i, name)
    \/ \E i \in Insts : Forget(i)

SpecNames == Init /\ [][NextNames]_vars

\* Of the names tried, those that are not empty and are made of letters,
\* digits and '_-.:/+' only.
WellFormed(name) == name.base \in {"vm", "db", "a_-.:/+9"}

\* Another live domain holds the name: a domain of the table that has not
\* the instance's domain id, or any domain of the table when the instance
\* has no domain id.
HeldByOther(v, domid, name) ==
    \E j \in Insts :
        /\ v[j].registered
        /\ v[j].name = name
        /\ ~IsSet(domid) \/ v[j].domid # domid

\* C23: check_name accepts a name exactly when it is well formed and no
\* other live domain holds it; validating the name the instance holds
\* succeeds and changes nothing; setName gives the name only when
\* check_name accepts it and otherwise raises and changes nothing; and what
\* create, setName and generateUniqueName give an instance is held by no
\* other live domain.
C23_NameValidation ==
    /\ \A name \in NamesTried :
           /\ check_name(World, None, name) <=>
                  (WellFormed(name) /\ ~HeldByOther(vm, None, name))
           /\ \A i \in Insts :
                  vm[i].exists =>
                      /\ check_name(World, vm[i].domid, name) <=>
                             (/\ WellFormed(name)
                              /\ ~HeldByOther(vm, vm[i].domid, name))
                      /\ setName(World, i, name).exc
                             <=> ~check_name(World, vm[i].domid, name)
                      /\ setName(World, i, name).vm =
                             IF check_name(World, vm[i].domid, name)
                             THEN [vm EXCEPT ![i].name = name]
                             ELSE vm
           /\ ninst < MaxInst =>
                  LET w == xd_domain_create(World,
                                            Config(name, 0, "destroy",
                                                   "restart", "restart", {}),
                                            {})
                  IN  IF check_name(World, None, name)
                      THEN /\ ~w.exc
                           /\ w.vm[w.ninst].name = name
                           /\ ~HeldByOther(vm, None, name)
                      ELSE w.exc /\ w.ninst = ninst /\ w.vm = vm
    /\ \A i \in Insts :
           (vm[i].registered /\ IsSet(vm[i].domid)) =>
               /\ check_name(World, vm[i].domid, vm[i].name)
               /\ setName(World, i, vm[i].name).vm = vm
               /\ ~HeldByOther(vm, vm[i].domid, generateUniqueName(World, i))
               /\ generateUniqueName(World, i) # vm[i].name
    /\ \A i, j \in Insts :
           (i # j /\ vm[i].registered /\ vm[j].registered) =>
               vm[i].name # vm[j].name

\* setName has given a domain a name of every allowed kind of character
\* while another live domain holds another name.
C23_Witness ==
    /\ last.ev = {"setName"}
    /\ ~last.raised
    /\ \E i, j \in Insts :
           /\ i # j
           /\ vm[i].registered
           /\ vm[j].registered
           /\ vm[i].name = Name(<<>>, "a_-.:/+9")
           /\ vm[j].name = Name(<<>>, "vm")

(***************************************************************************)
(* Xend stops and starts again: the objects are gone, the domains and the  *)
(* store are as they were, and every domain that is not dying is recreated.*)
(***************************************************************************)
\* The handles the hypervisor reports: the configurations' uuid, and one
\* that no configuration has.
Handles == {0, 1}

\* GetDomainPath(domid) finds the domain's path, or does not.
RecreateFaults == {{}, {"GetDomainPath"}}

Recreatable(d) ==
    /\ IsSet(xc[d])
    /\ ~Val(xc[d]).dying
    /\ ~vm[d].exists
    /\ \A i \in Insts : vm[i].exists => vm[i].registered

XendStop ==
    /\ \E i \in Insts : vm[i].exists
    /\ vm' = [i \in Insts |-> NoInst]
    /\ timers' = {}
    /\ last' = NoLast
    /\ UNCHANGED <<ninst, svm, sdom, xc, now>>
    /\ UNCHANGED tvars

Recreate(d, handle, f) ==
    /\ Recreatable(d)
    /\ Return(xd_recreate(World, d, handle, f), "recreate")

NextRecreate ==
    \/ \E config \in Configs : Create(config, {})
    \/ \E i \in Insts : Destroy(i, {"domain_destroy"})
    \/ \E d \in Domids : GuestCrash(d)
    \/ \E d \in Domids : Reap(d)
    \/ XendStop
    \/ \E d \in Domids, handle \in Handles, f \in RecreateFaults :
           Recreate(d, handle, f)

SpecRecreate == Init /\ [][NextRecreate]_vars

\* The store holds a UUID for domain d, and it is not the hypervisor's.
StoreUuidDiffers(d, handle) ==
    /\ IsSet(sdom[d].vm)
    /\ IsSet(svm[Val(sdom[d].vm)].details)
    /\ Val(svm[Val(sdom[d].vm)].details) # handle

\* C27: recreate of a domain that has no domain path in the store, or whose
\* UUID in the store is not the hypervisor's, raises, builds no object and
\* leaves both subtrees of the store as they are.
C27_RecreateRefuses ==
    \A d \in Domids, handle \in Handles, f \in RecreateFaults :
        (/\ Recreatable(d)
         /\ "GetDomainPath" \in f \/ StoreUuidDiffers(d, handle))
        => /\ recreate(World, d, handle, f).exc
           /\ recreate(World, d, handle, f).vm = vm
           /\ recreate(World, d, handle, f).svm = svm
           /\ recreate(World, d, handle, f).sdom = sdom

(***************************************************************************)
(* Domains are created and restored, with steps of the construction and    *)
(* calls of the teardown failing.                                          *)
(***************************************************************************)
\* The steps of the try of create and of restore that fail once the domain
\* has its path, and the calls of release_devices that fail in destroy.
StepFaults ==
    {{"domain_max_vcpus"}, {"createChannels"}, {"createDevices"},
     {"storeVmDetails"}, {"storeDomDetails"}}
ReleaseFaults == {{}, {"list"}, {"commit"}}
UnwindFaults ==
    {{}, {"construct"}} \cup {s \cup t : s \in StepFaults, t \in ReleaseFaults}

Restore(config, f) ==
    /\ \A j \in Insts : ~vm[j].registered
    /\ ninst < MaxInst
    /\ Return(xd_domain_restore(World, config, f), "restore")

\* The frames that the restore of a saved image reports.
Mfns == {1, 2}

\* Instance i is what restore returned: it has its domain and its path, no
\* image, and its restore has not been completed.
Restored(i) ==
    /\ Followed(i)
    /\ vm[i].dompath
    /\ ~vm[i].image
    /\ vm[i].state = STATE_DOM_OK
    /\ ~IsSet(vm[i].store_mfn)

CompleteRestore(i, store_mfn, console_mfn) ==
    /\ Restored(i)
    /\ Return(completeRestore(World, i, store_mfn, console_mfn, {}),
              "completeRestore")

NextRestore ==
    \/ \E config \in Configs, f \in UnwindFaults : Create(config, f)
    \/ \E config \in Configs, f \in UnwindFaults : Restore(config, f)
    \/ \E i \in Insts, store_mfn \in Mfns, console_mfn \in Mfns :
           CompleteRestore(i, store_mfn, console_mfn)
    \/ \E i \in Insts : Destroy(i, {})
    \/ \E i \in Insts : Forget(i)
    \/ \E d \in Domids : GuestCrash(d)
    \/ \E d \in Domids : Reap(d)

SpecRestore == Init /\ [][NextRestore]_vars

\* What the claim asks of a create or restore that returned world w under
\* the outcomes f: with a step failed, one destroy and the caught error
\* raised again; with none failed, no destroy and no error.
Unwound(w, f) ==
    IF w.fired \cap (UNION StepFaults \cup {"construct"}) # {}
    THEN /\ Count(w.calls, "destroy") = 1
         /\ w.exc
         /\ Has(w.calls, "raise")
    ELSE /\ Count(w.calls, "destroy") = 0
         /\ ~w.exc

\* C28: when a step of the try of create or restore raises, destroy is
\* called once on the instance and the error that was caught is raised
\* again; when none raises, destroy is not called.
C28_UnwindReraises ==
    \A config \in Configs, f \in UnwindFaults :
        ninst < MaxInst /\ (\A j \in Insts : ~vm[j].registered)
        => /\ Unwound(create(World, config, f), f)
           /\ Unwound(restore(World, config, f), f)

\* The same without the failures of the teardown.
C28_UnwindOnce ==
    \A config \in Configs, f \in {{}, {"construct"}} \cup StepFaults :
        ninst < MaxInst /\ (\A j \in Insts : ~vm[j].registered)
        => /\ Unwound(create(World, config, f), f)
           /\ Unwound(restore(World, config, f), f)

(***************************************************************************)
(* The memory settings of a validated info block under setMemoryTarget and *)
(* update.                                                                 *)
(***************************************************************************)
\* t = target << 10; self.info['memory_KiB'] = t.  The target is also
\* stored as memory/target below the domain path, which holds no part of
\* the info block.
setMemoryTarget(self, target) == [self EXCEPT !.memory_KiB = Some(target * 1024)]

\* update(info): self.info.update(info) with the mem_kb and maxmem_kb that
\* xc.domain_getinfo reports, then self.validateInfo().
update_info(self, mem_kb, maxmem_kb) ==
    validateInfo([self EXCEPT !.mem_kb = Some(mem_kb),
                              !.maxmem_kb = Some(maxmem_kb)])

\* What xc.domain_getinfo reports, in KiB.
XenKiBs == {1024 * m : m \in 0..MaxMiB}

\* validateInfo has returned for the info block.
AfterValidation ==
    /\ last.ev # {}
    /\ ~last.raised
    /\ IsSet(self_info.memory_KiB)
    /\ IsSet(self_info.maxmem_KiB)

SetMemoryTarget(target) ==
    /\ AfterValidation
    /\ self_info' = setMemoryTarget(self_info, target)
    /\ last' = [ev |-> {"setMemoryTarget"}, raised |-> FALSE, destroys |-> 0,
                given |-> self_info]
    /\ UNCHANGED validate_unchanged

UpdateInfo(mem_kb, maxmem_kb) ==
    /\ AfterValidation
    /\ self_info' = update_info(self_info, mem_kb, maxmem_kb).info
    /\ last' = [ev |-> {"update"},
                raised |-> update_info(self_info, mem_kb, maxmem_kb).exc,
                destroys |-> 0, given |-> self_info]
    /\ UNCHANGED validate_unchanged

NextMemory ==
    \/ Validate
    \/ \E target \in 0..MaxMiB : SetMemoryTarget(target)
    \/ \E mem_kb \in XenKiBs, maxmem_kb \in XenKiBs :
           UpdateInfo(mem_kb, maxmem_kb)

SpecMemory == InitValidate /\ [][NextMemory]_vars

\* C29: once validateInfo has returned, maxmem_KiB <= memory_KiB in every
\* state, whatever setMemoryTarget and update calls have been made since.
C29_MemoryInvariant ==
    AfterValidation => Val(self_info.maxmem_KiB) <= Val(self_info.memory_KiB)

\* The same for the states that validateInfo and update leave.
C29_AfterUpdate ==
    (AfterValidation /\ last.ev # {"setMemoryTarget"})
        => Val(self_info.maxmem_KiB) <= Val(self_info.memory_KiB)

(***************************************************************************)
(* destroy() of an instance whose construction failed.                     *)
(***************************************************************************)
\* destroy(i) has returned in world w: the state is SHUTDOWN, and the
\* threads that waited in waitForShutdown for a state other than
\* STATE_DOM_OK have been notified.
Invalidated(w, i) ==
    /\ ~w.exc
    /\ w.vm[i].state = STATE_DOM_SHUTDOWN
    /\ vm[i].state = STATE_DOM_OK => Has(w.calls, "notifyAll")

\* C30: destroy() leaves every instance in the state SHUTDOWN with the
\* waiters of waitForShutdown released, an instance that has no domain path
\* because its construction failed included.
C30_DestroyInvalidates ==
    \A i \in Insts : vm[i].exists => Invalidated(destroy(World, i, {}), i)

\* The same for the instances that have a domain path.
C30_DestroyInvalidatesBuilt ==
    \A i \in Built : Invalidated(destroy(World, i, {}), i)

(***************************************************************************)
(* The shutdown timeout: the domain of instance Self stays alive, one      *)
(* shutdown is requested, and the status poll and the callbacks of         *)
(* scheduler.later keep calling refreshShutdown while the clock advances.  *)
(***************************************************************************)
NextEscalate ==
    \/ PollCall
    \/ \E tm \in timers : TimerCall(tm)
    \/ \E t \in RefreshThreads : Acquire(t)
    \/ \E t \in RefreshThreads : Classify(t)
    \/ \E t \in RefreshThreads : Release(t)
    \/ \E reason \in Reasons : Shutdown(Self, reason)
    \/ Tick

\* The poll comes round again, a callback that is due is run, a thread in
\* refreshShutdown goes on, and the clock advances.
SpecEscalate ==
    /\ InitRefresh
    /\ [][NextEscalate]_vars
    /\ WF_vars(PollCall)
    /\ WF_vars(\E tm \in timers : TimerCall(tm))
    /\ \A t \in RefreshThreads :
           WF_vars(Acquire(t) \/ Classify(t) \/ Release(t))
    /\ WF_vars(Tick)

\* The marker of a shutdown request is in the store, the domain is alive,
\* and the clock of the model reaches a time after the grace period.
MarkerPending ==
    /\ Alive
    /\ IsSet(sdom[Self].sst)
    /\ \E t \in 0..MaxTime :
           /\ t % ClockStep = 0
           /\ t > Val(sdom[Self].sst) + SHUTDOWN_TIMEOUT

Destroyed ==
    /\ xc[Self] = Some(Dying)
    /\ vm[Self].state = STATE_DOM_SHUTDOWN

\* A refreshShutdown made now takes the timeout path only with the marker
\* set and more than SHUTDOWN_TIMEOUT elapsed since it was written.
TimeoutOnlyExpired ==
    Has(refreshShutdown(World, Self, None, {}).calls, "timeout")
        => /\ IsSet(sdom[Self].sst)
           /\ sdom[Self].control \in {Some("poweroff"), Some("reboot"),
                                       Some("halt"), Some("crash")}
           /\ now - Val(sdom[Self].sst) > SHUTDOWN_TIMEOUT

\* C31: once shutdown(reason), reason other than suspend, has written the
\* marker and the domain stays alive, the polls and the scheduled re-checks
\* of refreshShutdown destroy the domain in the end; the timeout path never
\* destroys it before SHUTDOWN_TIMEOUT has elapsed since the marker.
C31_TimeoutEscalation ==
    /\ [](TimeoutOnlyExpired)
    /\ MarkerPending ~> Destroyed

\* The callback that refreshShutdown scheduled has found the timeout
\* expired and destroyed the domain.
C31_Witness ==
    /\ refresh_shutdown_lock = Some("timer")
    /\ "timeout" \in under_lock
    /\ Destroyed
    /\ now > SHUTDOWN_TIMEOUT

(***************************************************************************)
(* introduceDomain, as create and completeRestore reach it.                *)
(***************************************************************************)
\* In world w no assertion of introduceDomain has failed, and if instance i
\* was introduced its domain id, store frame and store port are set.
IntroducedSet(w, i) ==
    /\ ~Has(w.calls, "AssertionError")
    /\ Has(w.calls, "introduceDomain") =>
           /\ IsSet(w.vm[i].domid)
           /\ Val(w.vm[i].domid) \in Domids
           /\ IsSet(w.vm[i].store_mfn)
           /\ IsSet(w.vm[i].store_port)

\* C32: on every path to introduceDomain, from initDomain in create and
\* from completeRestore on what restore returned, the domain id, the store
\* frame and the store port are set: no assertion fails, create introduces
\* the domain unless an earlier step failed, and completeRestore always
\* introduces it.
C32_IntroduceAsserts ==
    /\ \A config \in Configs, f \in Faults :
           (ninst < MaxInst /\ \A j \in Insts : ~vm[j].registered)
           => /\ IntroducedSet(create(World, config, f), ninst + 1)
              /\ f = {} => Has(create(World, config, f).calls,
                               "introduceDomain")
    /\ \A i \in Insts, store_mfn \in Mfns, console_mfn \in Mfns, f \in Faults :
           Restored(i)
           => /\ IntroducedSet(
                     completeRestore(World, i, store_mfn, console_mfn, f), i)
              /\ Has(completeRestore(World, i, store_mfn, console_mfn,
                                     f).calls,
                     "introduceDomain")

\* The restore of an instance has been completed: it has been introduced
\* with the port that restore allocated and the frame that was supplied.
C32_Witness ==
    \E i \in Insts :
        /\ Followed(i)
        /\ ~vm[i].image
        /\ vm[i].state = STATE_DOM_OK
        /\ IsSet(vm[i].store_mfn)
        /\ IsSet(vm[i].store_port)
        /\ sdom[Val(vm[i].domid)].details

(***************************************************************************)
(* shutdown(reason): the reasons refused, and the request to suspend.      *)
(***************************************************************************)
\* The valid reasons, one that is none, and the name of an unknown code.
ReasonsAsked == shutdown_reasons \cup {"bogus", "?"}

\* Only a suspend has been requested of the domain of Self: shutdown writes
\* control/shutdown on every request, and one request is made of a domain.
OnlySuspend == vm[Self].dompath /\ sdom[Self].control = Some("suspend")

\* shutdown(reason) on Self: a reason that is not valid raises and leaves
\* the store as it is; suspend writes the request and not the marker; every
\* other valid reason writes the request and the marker.
ShutdownWrites ==
    vm[Self].dompath =>
        \A reason \in ReasonsAsked :
            /\ reason \notin {"poweroff", "reboot", "suspend", "crash", "halt"}
                   => /\ shutdown(World, Self, reason).exc
                      /\ shutdown(World, Self, reason).sdom = sdom
                      /\ shutdown(World, Self, reason).svm = svm
            /\ reason = "suspend"
                   => /\ ~shutdown(World, Self, reason).exc
                      /\ shutdown(World, Self, reason).sdom =
                             [sdom EXCEPT ![Self].control = Some("suspend")]
            /\ reason \in {"poweroff", "reboot", "crash", "halt"}
                   => shutdown(World, Self, reason).sdom[Self].sst = Some(now)

\* With only a suspend requested there is no marker, and no refreshShutdown,
\* however late, takes the timeout path.
SuspendNoTimeout ==
    OnlySuspend =>
        /\ ~IsSet(sdom[Self].sst)
        /\ \A t \in Times :
               /\ ~Has(refreshShutdown(At(t), Self, None, {}).calls, "timeout")
               /\ Alive => ~Has(refreshShutdown(At(t), Self, None, {}).calls,
                                "destroy")

\* C33: shutdown with a reason outside poweroff, reboot, suspend, crash,
\* halt raises and writes nothing to the store; shutdown('suspend') writes
\* control/shutdown and never xend/shutdown_start_time; and the timeout
\* check of refreshShutdown never destroys a domain of which only a suspend
\* has been requested.
C33_SuspendNoEscalation ==
    /\ [](ShutdownWrites /\ SuspendNoTimeout)
    /\ [][("timeout" \notin under_lock /\ "timeout" \in under_lock')
              => ~OnlySuspend]_vars

\* Only a suspend has been requested, the domain is still alive after the
\* grace period, and the poll has run refreshShutdown, which did nothing.
C33_Witness ==
    /\ OnlySuspend
    /\ Alive
    /\ now > SHUTDOWN_TIMEOUT
    /\ pc["poll"] = "finally"
    /\ under_lock = {}
    /\ vm[Self].state = STATE_DOM_OK

====
